---- MODULE Spec2Model ----
(***************************************************************************)
(* The subscription reconciler of review_assistant: the Stripe webhook of   *)
(* src/api.py over the tables of src/db.py.                                  *)
(*                                                                           *)
(* A webhook delivery is a process that moves from one database round-trip   *)
(* to the next; every db_* function opens its own connection and commits,   *)
(* so each round-trip is one atomic step on the shared tables and any        *)
(* round-trip can raise (the handler then answers 500).                      *)
(*                                                                           *)
(* Spec    : deliveries handled by concurrent handlers.                      *)
(* SeqSpec : the same handlers, one delivery in flight at a time.            *)
(*                                                                           *)
(* The tenant endpoints of src/api.py (credential checks, rate limiter, key  *)
(* rotation) and the admin's key endpoints work on the same customer_keys    *)
(* table and on the module dict _hits.                                       *)
(*                                                                           *)
(* RateSpec : calls of rate_limit one after the other, with a moving clock.  *)
(* RaceSpec : calls of rate_limit on concurrent threads.                     *)
(* KeySpec  : rotations, one request at a time, and the admin's key writes.  *)
(* GateSpec : the tenant endpoints /analyze, /summary, /me, /billing/portal. *)
(* RotSpec  : rotations of one key on concurrent threads, next to the        *)
(*            cancellation of the subscription and the admin's deactivate.   *)
(* OrderSpec: /summary called with missing, unknown, inactive and padded     *)
(*            keys, with a moving clock.                                     *)
(* PlanSpec : enforce_plan_limit of src/db.py over plans and daily counts.   *)
(* AdminSpec: tenant and admin endpoints called with the admin secret and    *)
(*            with a tenant's key.                                           *)
(***************************************************************************)
EXTENDS Integers, Sequences, FiniteSets, TLC

VARIABLES
    cfg_secret,   \* STRIPE_WEBHOOK_SECRET is set (api.py:411)
    businesses,   \* table businesses: business_id -> row
    subscriptions,\* table subscriptions: business_id -> row
    customer_keys,\* table customer_keys, in order of insertion: api_key -> row
    processed,    \* table processed_stripe_events: the event ids
    evt,          \* the events the provider has emitted; an event's id is its index
    hs,           \* the webhook handlers: position and locals of each
    acked,        \* history: event ids answered with a 2xx
    applied,      \* history: event ids whose handler branch ran to its return
    minted,       \* history: event id -> credentials issued on its behalf
    subWrites,    \* history: event id -> subscription writes on its behalf
    unresolved,   \* history: references of the payment failures dropped as unresolvable
    cfg_admin,    \* INTERNAL_API_KEY is set (api.py:244, 647, 677)
    hits,         \* _hits: x-api-key header value -> timestamps (api.py:37)
    now,          \* the clock time.time() reads
    rq,           \* the request threads of the tenant and admin endpoints
    admitted,     \* history: header value -> timestamps of the calls rate_limit admitted
    reviews,      \* table reviews: business_id -> number of rows
    usage_daily,  \* table usage_daily: business_id -> day -> analyze_count
    today,        \* CURRENT_DATE of the database
    served,       \* history: business_id -> /analyze requests that passed every gate
    quota         \* the outcome of the last call of enforce_plan_limit

vars == <<cfg_secret, businesses, subscriptions, customer_keys, processed, evt, hs,
          acked, applied, minted, subWrites, unresolved,
          cfg_admin, hits, now, rq, admitted, reviews, usage_daily, today, served,
          quota>>

tables == <<businesses, subscriptions, customer_keys>>

\* what the webhook never touches: the endpoints' side
apiVars == <<cfg_admin, hits, now, rq, admitted, reviews, usage_daily, today, served,
            quota>>

\* the tables of the billable operations, which only /analyze writes
billVars == <<reviews, usage_daily, today, served, quota>>

\* what the endpoints never touch: the webhook's side
hookVars == <<cfg_secret, businesses, subscriptions, processed, evt, hs,
              acked, applied, minted, subWrites, unresolved>>

-----------------------------------------------------------------------------
(* Bounds and value domains *)

\* distinct event ids the provider sends
MaxEvents == 2

\* distinct event ids in the runs with concurrent handlers
MaxRaceEvents == 1

\* rows of the customer_keys table
MaxKeys == 2

\* the limit of calls per window; the code's RATE_LIMIT_PER_MIN is 30 (api.py:36)
\* and is only ever compared with the length of a list, so the model scales it
RATE_LIMIT_PER_MIN == 3

\* the latest instant of the clock
MaxTime == 121

\* the calendar days of the database
MaxDay == 2

Days == 1..MaxDay

EventIds == 1..MaxEvents

Handlers == {"h1", "h2"}

NULL == "NULL"

Biz == {"x", "y"}

Cus == {"c1", "c2"}

Sub == {"s1", "s2"}

\* business_id.strip().lower()
Norm(md) ==
    CASE md = "x"  -> "x"
      [] md = " Y" -> "y"
      [] OTHER     -> md

NoRow == [absent |-> TRUE]

NoEvent == [type |-> "none"]

\* enforce_plan_limit has not been called
NoQuota == [biz |-> NULL]

InvoiceTypes == {"invoice.payment_succeeded", "invoice.payment_failed",
                 "customer.subscription.deleted"}

\* (subscription, customer) as an invoice or a subscription object carries them
Refs == [cus : Cus \cup {NULL}, sub : Sub \cup {NULL}]

\* the checkout sessions: metadata.business_id, the customer's email, the
\* customer and the subscription the session created
Sessions ==
    {[md |-> "",   email |-> NULL, cus |-> "c1", sub |-> "s1"],
     [md |-> "x",  email |-> NULL, cus |-> "c1", sub |-> "s1"],
     [md |-> "x",  email |-> NULL, cus |-> "c1", sub |-> "s2"],
     [md |-> "x",  email |-> NULL, cus |-> NULL, sub |-> NULL],
     [md |-> " Y", email |-> "m2", cus |-> "c2", sub |-> "s2"],
     [md |-> " Y", email |-> "m2", cus |-> "c1", sub |-> "s2"],
     [md |-> " Y", email |-> "m2", cus |-> "c2", sub |-> "s1"]}

\* the verified event objects: type and the fields of data.object the handler reads
Events ==
    {[type |-> "checkout.session.completed", md |-> s.md, email |-> s.email,
      cus |-> s.cus, sub |-> s.sub] : s \in Sessions}
    \cup {[type |-> t, md |-> "", email |-> NULL, cus |-> r.cus, sub |-> r.sub] :
             t \in InvoiceTypes, r \in Refs}
    \cup {[type |-> "customer.updated", md |-> "", email |-> NULL,
           cus |-> NULL, sub |-> NULL]}

-----------------------------------------------------------------------------
(* src/db.py *)

Coalesce(a, b) == IF a # NULL THEN a ELSE b

\* the row db_set_subscription's upsert leaves for a tenant
SubscriptionRow(old, status, cus, sub, period_end, plan) ==
    IF old = NoRow
    THEN [cus |-> cus, sub |-> sub, status |-> status,
          period_end |-> period_end, plan |-> plan]
    ELSE [cus |-> Coalesce(cus, old.cus), sub |-> Coalesce(sub, old.sub),
          status |-> status, period_end |-> period_end, plan |-> plan]

\* the partial unique indexes on stripe_customer_id and stripe_subscription_id
UniqueViolation(tbl, b, row) ==
    \E o \in Biz \ {b} :
        /\ tbl[o] # NoRow
        /\ \/ row.cus # NULL /\ tbl[o].cus = row.cus
           \/ row.sub # NULL /\ tbl[o].sub = row.sub

\* db_set_subscription with the defaults of its signature made explicit
db_set_subscription(tbl, b, status, cus, sub, period_end, plan) ==
    [tbl EXCEPT ![b] = SubscriptionRow(tbl[b], status, cus, sub, period_end, plan)]

db_set_subscription_never_raises(tbl, b, status, cus, sub, period_end, plan) == FALSE

\* the upsert is refused: its row would share a reference with another tenant's
db_set_subscription_raises(tbl, b, status, cus, sub, period_end, plan) ==
    UniqueViolation(tbl, b, SubscriptionRow(tbl[b], status, cus, sub, period_end, plan))

db_ensure_business(tbl, b, email) ==
    [tbl EXCEPT ![b] = IF tbl[b] = NoRow THEN [email |-> email]
                       ELSE [email |-> Coalesce(email, tbl[b].email)]]

\* a key from secrets.token_urlsafe is a new primary key: the insert adds a row
db_add_customer_key(tbl, b) == Append(tbl, [biz |-> b, active |-> TRUE])

db_deactivate_business_keys_all(tbl, b) ==
    [k \in DOMAIN tbl |-> [tbl[k] EXCEPT !.active = FALSE]]

db_deactivate_business_keys_none(tbl, b) == tbl

db_deactivate_business_keys(tbl, b) ==
    [k \in DOMAIN tbl |-> IF tbl[k].biz = b THEN [tbl[k] EXCEPT !.active = FALSE]
                          ELSE tbl[k]]

db_get_business_for_key_any_row(tbl, k) ==
    IF k \in DOMAIN tbl THEN tbl[k].biz ELSE NULL

db_get_business_for_key(tbl, k) ==
    IF k \in DOMAIN tbl /\ tbl[k].active THEN tbl[k].biz ELSE NULL

BySub(tbl, sub) == {b \in Biz : tbl[b] # NoRow /\ tbl[b].sub = sub}

ByCus(tbl, cus) == {b \in Biz : tbl[b] # NoRow /\ tbl[b].cus = cus}

db_get_business_by_stripe_first_row(tbl, sub, cus) ==
    IF sub # NULL /\ BySub(tbl, sub) # {}
    THEN CHOOSE b \in BySub(tbl, sub) : TRUE
    ELSE IF cus # NULL /\ ByCus(tbl, cus) # {}
         THEN CHOOSE b \in ByCus(tbl, cus) : TRUE
         ELSE IF \E b \in Biz : tbl[b] # NoRow
              THEN CHOOSE b \in Biz : tbl[b] # NoRow
              ELSE NULL

db_get_business_by_stripe_cus_first(tbl, sub, cus) ==
    IF cus # NULL /\ ByCus(tbl, cus) # {}
    THEN CHOOSE b \in ByCus(tbl, cus) : TRUE
    ELSE IF sub # NULL /\ BySub(tbl, sub) # {}
         THEN CHOOSE b \in BySub(tbl, sub) : TRUE
         ELSE NULL

db_get_business_by_stripe(tbl, sub, cus) ==
    IF sub # NULL /\ BySub(tbl, sub) # {}
    THEN CHOOSE b \in BySub(tbl, sub) : TRUE
    ELSE IF cus # NULL /\ ByCus(tbl, cus) # {}
         THEN CHOOSE b \in ByCus(tbl, cus) : TRUE
         ELSE NULL

db_stripe_event_seen_never(ledger, id) == FALSE

db_stripe_event_seen(ledger, id) == id \in ledger

db_mark_stripe_event_not_yet(ledger, id) == ledger

db_mark_stripe_event(ledger, id) == ledger \cup {id}

ActiveKeys(tbl, b) == {k \in DOMAIN tbl : tbl[k].biz = b /\ tbl[k].active}

\* db_add_customer_key for a key the caller names: ON CONFLICT (api_key) DO
\* UPDATE SET business_id = EXCLUDED.business_id, is_active = TRUE
db_upsert_customer_key(tbl, k, b) ==
    IF k \in DOMAIN tbl
    THEN [tbl EXCEPT ![k] = [biz |-> b, active |-> TRUE]]
    ELSE Append(tbl, [biz |-> b, active |-> TRUE])

db_deactivate_customer_key(tbl, k) ==
    IF k \in DOMAIN tbl THEN [tbl EXCEPT ![k].active = FALSE] ELSE tbl

\* db.py:382-390: row[0] if row else "inactive"
db_get_subscription_status(tbl, b) ==
    IF tbl[b] # NoRow THEN tbl[b].status ELSE "inactive"

\* db.py:96-99: analyze_per_day of each plan
PLAN_LIMITS == [starter |-> 30, pro |-> 200]

\* db.py:101-110: COALESCE(s.plan, 'starter'), (row[0] if row else "starter") or "starter"
db_get_plan_for_business(tbl, b) ==
    IF tbl[b] = NoRow THEN "starter"
    ELSE IF tbl[b].plan \in {NULL, ""} THEN "starter"
    ELSE tbl[b].plan

\* db.py:112-120: a day without a row counts 0
db_get_usage_today(usage, b, day) == usage[b][day]

\* db.py:122-133
db_inc_usage_today(usage, b, day, inc) == [usage EXCEPT ![b][day] = @ + inc]

LimitOf_AlwaysPro(plan) == PLAN_LIMITS["pro"]

\* db.py:137: PLAN_LIMITS.get(plan, PLAN_LIMITS["starter"])["analyze_per_day"]
LimitOf(plan) ==
    IF plan \in DOMAIN PLAN_LIMITS THEN PLAN_LIMITS[plan] ELSE PLAN_LIMITS["starter"]

\* db.py:135-141: the triple returned, or the exception of line 140. db.py does
\* not import HTTPException (db.py:1-4), so evaluating the raise statement
\* raises NameError.
enforce_plan_limit(subs, usage, b, day) ==
    LET plan == db_get_plan_for_business(subs, b)
        limit == LimitOf(plan)
        used == db_get_usage_today(usage, b, day)
    IN [raised |-> used >= limit, exc |-> IF used >= limit THEN "NameError" ELSE "none",
        plan |-> plan, used |-> used, limit |-> limit]

-----------------------------------------------------------------------------
(* The x-api-key header and the credential checks, src/api.py:641-685 *)

KeyIds == 1..MaxKeys

\* the empty string
EmptyKey == 0

\* the value of INTERNAL_API_KEY, stripped
AdminSecret == MaxKeys + 1

\* a string that is no key of the store and not the admin secret
Bogus == MaxKeys + 2

\* the header is absent (None)
NoHeader == [sent |-> FALSE, key |-> EmptyKey, pad |-> FALSE]

\* the header carries key k, with surrounding whitespace when pad
Header(k, pad) == [sent |-> TRUE, key |-> k, pad |-> pad]

Headers ==
    {NoHeader}
    \cup {Header(k, pad) : k \in {EmptyKey, AdminSecret, Bogus} \cup KeyIds,
                            pad \in BOOLEAN}

\* x_api_key.strip()
Strip(hdr) == hdr.key

\* not x_api_key: None or the empty string
Falsy(hdr) == ~hdr.sent \/ (hdr.key = EmptyKey /\ ~hdr.pad)

\* admin and key == admin.strip()
IsAdmin(admin, hdr) == admin /\ Strip(hdr) = AdminSecret

\* api.py:641-655: "ok" for a return, "401" for the HTTPException
verify_api_key(tbl, admin, hdr) ==
    IF Falsy(hdr) THEN "401"
    ELSE IF IsAdmin(admin, hdr) THEN "ok"
    ELSE IF db_get_business_for_key(tbl, Strip(hdr)) # NULL THEN "ok"
    ELSE "401"

\* api.py:671-685: the tenant, "__admin__", or "401" for the HTTPException
get_business_from_key(tbl, admin, hdr) ==
    IF Falsy(hdr) THEN "401"
    ELSE IF IsAdmin(admin, hdr) THEN "__admin__"
    ELSE IF db_get_business_for_key(tbl, Strip(hdr)) # NULL
         THEN db_get_business_for_key(tbl, Strip(hdr))
    ELSE "401"

\* the tables verify_api_key and get_business_from_key query: none when they
\* return or raise before db_get_business_for_key (api.py:642-648, 672-678)
KeyReads(admin, hdr) ==
    IF Falsy(hdr) \/ IsAdmin(admin, hdr) THEN {} ELSE {"customer_keys"}

require_admin_AnyKnownKey(admin, hdr) ==
    \/ admin /\ ~Falsy(hdr) /\ Strip(hdr) = AdminSecret
    \/ ~Falsy(hdr) /\ Strip(hdr) \in KeyIds

\* api.py:243-246
require_admin(admin, hdr) == admin /\ ~Falsy(hdr) /\ Strip(hdr) = AdminSecret

-----------------------------------------------------------------------------
(* The rate limiter, src/api.py:36-37, 657-669 *)

\* window_start = now - 60
Window == 60

Evict_Nothing(timestamps, t) == timestamps

\* [t for t in timestamps if t >= window_start]
Evict(timestamps, t) == SelectSeq(timestamps, LAMBDA x : x >= t - Window)

\* len(timestamps) >= RATE_LIMIT_PER_MIN
OverLimit(timestamps) == Len(timestamps) >= RATE_LIMIT_PER_MIN

\* the clock moves by a window, or by a window and a second
Advances == {Window, Window + 1}

-----------------------------------------------------------------------------
(* rotate_key's transaction, src/api.py:188-204 *)

rotate_key_writes_insert_only(tbl, old, b) ==
    Append(tbl, [biz |-> b, active |-> TRUE])

\* what the commit publishes: the INSERT of the new key, then the UPDATE of the
\* old one; the new key is a fresh token, so the INSERT adds a row
rotate_key_writes(tbl, old, b) ==
    db_deactivate_customer_key(Append(tbl, [biz |-> b, active |-> TRUE]), old)

Rollback_Autocommit(tbl, pc, old, b) ==
    CASE pc = "upd"    -> Append(tbl, [biz |-> b, active |-> TRUE])
      [] pc = "commit" -> rotate_key_writes(tbl, old, b)
      [] OTHER         -> tbl

\* the table after the with-block of db_conn() is left by an exception raised
\* at position pc: the statements executed so far are rolled back
Rollback(tbl, pc, old, b) == tbl

-----------------------------------------------------------------------------
(* The stored state a deployment starts from: an empty database, a tenant    *)
(* provisioned on the pro plan (PLAN_LIMITS, db.py:96-99), or a tenant whose *)
(* subscription was canceled.                                                *)

EmptyBusinesses == [b \in Biz |-> NoRow]

EmptySubscriptions == [b \in Biz |-> NoRow]

SeededBusinesses == [EmptyBusinesses EXCEPT !["x"] = [email |-> "m1"]]

ProSubscriptions ==
    [EmptySubscriptions EXCEPT !["x"] =
        [cus |-> "c1", sub |-> "s1", status |-> "active",
         period_end |-> "P1", plan |-> "pro"]]

CanceledSubscriptions ==
    [EmptySubscriptions EXCEPT !["x"] =
        [cus |-> "c1", sub |-> "s1", status |-> "canceled",
         period_end |-> NULL, plan |-> "starter"]]

\* a handler between two deliveries; failed: the notifications that raised;
\* was: the status the tenant's subscription row had when the checkout wrote it
Idle == [pc |-> "idle", id |-> 0, biz |-> NULL, resp |-> "none", failed |-> {},
         was |-> NULL]

\* a request thread between two requests
Ready == [pc |-> "idle", op |-> "none", hdr |-> NoHeader, t |-> 0, ts |-> <<>>,
          biz |-> NULL, resp |-> "none", at |-> "none", key |-> EmptyKey,
          detail |-> "none", reads |-> {}]

Threads == {"t1", "t2"}

\* no request has been served
ApiIdle ==
    /\ hits = [hdr \in Headers |-> <<>>]
    /\ now = 0
    /\ rq = [t \in Threads |-> Ready]
    /\ admitted = [hdr \in Headers |-> <<>>]
    /\ reviews = [b \in Biz |-> 0]
    /\ usage_daily = [b \in Biz |-> [d \in Days |-> 0]]
    /\ today = 1
    /\ served = [b \in Biz |-> 0]
    /\ quota = NoQuota

Init ==
    /\ cfg_secret \in BOOLEAN
    /\ \/ /\ businesses = EmptyBusinesses
          /\ subscriptions = EmptySubscriptions
          /\ customer_keys = <<>>
       \/ /\ businesses = SeededBusinesses
          /\ subscriptions = ProSubscriptions
          /\ customer_keys = <<[biz |-> "x", active |-> TRUE]>>
       \/ /\ businesses = SeededBusinesses
          /\ subscriptions = CanceledSubscriptions
          /\ customer_keys = <<[biz |-> "x", active |-> FALSE]>>
    /\ processed = {}
    /\ evt = [i \in EventIds |-> NoEvent]
    /\ hs = [h \in Handlers |-> Idle]
    /\ acked = {}
    /\ applied = {}
    /\ minted = [i \in EventIds |-> 0]
    /\ subWrites = [i \in EventIds |-> 0]
    /\ unresolved = {}
    /\ cfg_admin = TRUE
    /\ ApiIdle

-----------------------------------------------------------------------------
(* stripe_webhook, src/api.py:407-606 *)

InFlight(h) == hs[h].pc # "idle"

\* the event a handler holds
Ev(h) == IF hs[h].id \in EventIds THEN evt[hs[h].id] ELSE NoEvent

\* the ids a row of the ledger or a delivery in flight holds
KnownIds == processed \cup {hs[h].id : h \in {o \in Handlers : InFlight(o)}}

\* event ids are opaque: a new event takes the least id that is not known
NextId == IF EventIds \subseteq KnownIds THEN 0
          ELSE CHOOSE i \in EventIds \ KnownIds : \A j \in EventIds \ KnownIds : i <= j

\* the handler returns a 2xx, which acknowledges the event; branch: the return
\* is one of the event type's branch, not the dedup's
Finish(h, resp, branch) ==
    /\ hs' = [hs EXCEPT ![h].pc = "done", ![h].resp = resp]
    /\ acked' = acked \cup {hs[h].id}
    /\ applied' = IF branch THEN applied \cup {hs[h].id} ELSE applied

Goto(h, pc) == hs' = [hs EXCEPT ![h].pc = pc]

RejectUnverified_AfterMark(h) ==
    /\ UNCHANGED <<unresolved, apiVars>>
    /\ hs[h].pc = "idle"
    /\ hs' = [hs EXCEPT ![h].pc = "done",
                        ![h].resp = IF cfg_secret THEN "400" ELSE "500"]
    /\ processed' = IF NextId # 0 THEN db_mark_stripe_event(processed, NextId)
                    ELSE processed
    /\ UNCHANGED <<cfg_secret, tables, evt, acked, applied, minted, subWrites>>

\* api.py:409-425: no secret, a bad payload or a bad signature
RejectUnverified(h) ==
    /\ UNCHANGED <<unresolved, apiVars>>
    /\ hs[h].pc = "idle"
    /\ hs' = [hs EXCEPT ![h].pc = "done",
                        ![h].resp = IF cfg_secret THEN "400" ELSE "500"]
    /\ UNCHANGED <<cfg_secret, tables, processed, evt, acked, applied, minted, subWrites>>

\* api.py:409-428: a verified event arrives, a new one or one delivered again
\* (at-least-once delivery)
Receive(h, id) ==
    /\ UNCHANGED <<unresolved, apiVars>>
    /\ hs[h].pc = "idle"
    /\ cfg_secret
    /\ id \in KnownIds \cup {NextId}
    /\ hs' = [hs EXCEPT ![h] = [pc |-> "seen", id |-> id,
                                biz |-> NULL, resp |-> "none", failed |-> {},
                                was |-> NULL]]
    /\ UNCHANGED <<cfg_secret, tables, processed, evt, acked, applied, minted, subWrites>>

AfterMark_ProvisionsWithoutMetadata(ev) ==
    CASE ev.type = "checkout.session.completed" -> "ensure"
      [] ev.type \in InvoiceTypes -> "resolve"
      [] OTHER -> "return_ignored"

AfterMark_ResolvesUnknownTypes(ev) ==
    CASE ev.type = "checkout.session.completed" ->
            IF ev.md = "" THEN "return_ok" ELSE "ensure"
      [] OTHER -> "resolve"

\* where the handler goes after db_mark_stripe_event, api.py:435-448, 533-606
AfterMark(ev) ==
    CASE ev.type = "checkout.session.completed" ->
            IF ev.md = "" THEN "return_ok" ELSE "ensure"
      [] ev.type \in InvoiceTypes -> "resolve"
      [] OTHER -> "return_ignored"

\* api.py:430-431
SeenCheck(h) ==
    /\ UNCHANGED <<unresolved, apiVars>>
    /\ hs[h].pc = "seen"
    /\ IF db_stripe_event_seen(processed, hs[h].id)
       THEN Finish(h, "already_processed", FALSE)
       ELSE Goto(h, "mark") /\ UNCHANGED <<acked, applied>>
    /\ UNCHANGED <<cfg_secret, tables, processed, evt, minted, subWrites>>

\* api.py:433-448, 605-606. The event's type and data are first read here
\* (api.py:435): ev is the event that id names, the one any other delivery of
\* the id has read.
Mark(h, ev) ==
    /\ UNCHANGED <<unresolved, apiVars>>
    /\ hs[h].pc = "mark"
    /\ evt[hs[h].id] \in {NoEvent, ev}
    /\ evt' = [evt EXCEPT ![hs[h].id] = ev]
    /\ processed' = db_mark_stripe_event(processed, hs[h].id)
    /\ LET nxt == AfterMark(ev) IN
         CASE nxt = "return_ok" -> Finish(h, "ok", TRUE)
           [] nxt = "return_ignored" -> Finish(h, "ignored", TRUE)
           [] OTHER -> Goto(h, nxt) /\ UNCHANGED <<acked, applied>>
    /\ UNCHANGED <<cfg_secret, tables, minted, subWrites>>

\* api.py:450-453
EnsureBusiness(h) ==
    /\ UNCHANGED <<unresolved, apiVars>>
    /\ hs[h].pc = "ensure"
    /\ businesses' = db_ensure_business(businesses, Norm(Ev(h).md), Ev(h).email)
    /\ hs' = [hs EXCEPT ![h].pc = "co_set", ![h].biz = Norm(Ev(h).md)]
    /\ UNCHANGED <<cfg_secret, subscriptions, customer_keys, processed, evt,
                   acked, applied, minted, subWrites>>

\* api.py:456-462; a unique index can refuse the write (db.py:82-92)
CheckoutSetSubscription(h) ==
    /\ UNCHANGED <<unresolved, apiVars>>
    /\ hs[h].pc = "co_set"
    /\ IF db_set_subscription_raises(subscriptions, hs[h].biz, "active",
                                     Ev(h).cus, Ev(h).sub, NULL, "starter")
       THEN /\ hs' = [hs EXCEPT ![h].pc = "done", ![h].resp = "500"]
            /\ UNCHANGED <<subscriptions, subWrites>>
       ELSE /\ subscriptions' = db_set_subscription(subscriptions, hs[h].biz,
                                    "active", Ev(h).cus, Ev(h).sub, NULL, "starter")
            /\ subWrites' = [subWrites EXCEPT ![hs[h].id] = @ + 1]
            /\ hs' = [hs EXCEPT ![h].pc = "co_key",
                                ![h].was = db_get_subscription_status(subscriptions,
                                                                      hs[h].biz)]
    /\ UNCHANGED <<cfg_secret, businesses, customer_keys, processed, evt,
                   acked, applied, minted>>

\* api.py:471-473
CheckoutAddKey(h) ==
    /\ UNCHANGED <<unresolved, apiVars>>
    /\ hs[h].pc = "co_key"
    /\ customer_keys' = db_add_customer_key(customer_keys, hs[h].biz)
    /\ minted' = [minted EXCEPT ![hs[h].id] = @ + 1]
    /\ Goto(h, "notify")
    /\ UNCHANGED <<cfg_secret, businesses, subscriptions, processed, evt,
                   acked, applied, subWrites>>

\* the notifications of a checkout: send_email (emailer.py:4-27) and the post
\* to ADMIN_DISCORD_WEBHOOK_URL
Notifications == {"email", "discord"}

CheckoutNotify_FailureRaises(h) ==
    /\ UNCHANGED <<unresolved, apiVars>>
    /\ hs[h].pc = "notify"
    /\ \E failed \in SUBSET Notifications :
          IF failed = {}
          THEN /\ hs' = [hs EXCEPT ![h].pc = "done", ![h].resp = "ok"]
               /\ acked' = acked \cup {hs[h].id}
               /\ applied' = applied \cup {hs[h].id}
          ELSE /\ hs' = [hs EXCEPT ![h].pc = "done", ![h].resp = "500",
                                   ![h].failed = failed]
               /\ UNCHANGED <<acked, applied>>
    /\ UNCHANGED <<cfg_secret, tables, processed, evt, minted, subWrites>>

\* api.py:508-531: the welcome email and the chat notification are attempted;
\* each can raise (a refused connection, a timeout, an HTTP error status) and
\* the except clauses of api.py:513 and 526 catch and print what is raised
CheckoutNotify(h) ==
    /\ UNCHANGED <<unresolved, apiVars>>
    /\ hs[h].pc = "notify"
    /\ \E failed \in SUBSET Notifications :
          /\ hs' = [hs EXCEPT ![h].pc = "done", ![h].resp = "ok",
                              ![h].failed = failed]
          /\ acked' = acked \cup {hs[h].id}
          /\ applied' = applied \cup {hs[h].id}
    /\ UNCHANGED <<cfg_secret, tables, processed, evt, minted, subWrites>>

\* api.py:535-544, 560-566, 582-588
Resolve(h) ==
    /\ UNCHANGED apiVars
    /\ hs[h].pc = "resolve"
    /\ LET b == db_get_business_by_stripe(subscriptions, Ev(h).sub, Ev(h).cus) IN
         IF b = NULL
         THEN /\ Finish(h, "ok", TRUE)
              /\ unresolved' = IF Ev(h).type = "invoice.payment_failed" /\ Ev(h).sub # NULL
                                THEN unresolved \cup {Ev(h).sub}
                                ELSE unresolved
         ELSE /\ hs' = [hs EXCEPT ![h].pc = "inv_set", ![h].biz = b]
              /\ UNCHANGED <<acked, applied, unresolved>>
    /\ UNCHANGED <<cfg_secret, tables, processed, evt, minted, subWrites>>

StatusFor_PastDueWhenPaid(type) ==
    CASE type = "invoice.payment_succeeded" -> "past_due"
      [] type = "invoice.payment_failed" -> "past_due"
      [] type = "customer.subscription.deleted" -> "canceled"

\* the status each branch writes: api.py:546, 568, 590
StatusFor(type) ==
    CASE type = "invoice.payment_succeeded" -> "active"
      [] type = "invoice.payment_failed" -> "past_due"
      [] type = "customer.subscription.deleted" -> "canceled"

DeactivatesKeys_OnFailureToo(type) ==
    type \in {"customer.subscription.deleted", "invoice.payment_failed"}

\* the branch that goes on to db_deactivate_business_keys: api.py:580, 591
DeactivatesKeys(type) == type = "customer.subscription.deleted"

\* api.py:546, 568, 590: db_set_subscription(business_id=..., status=...)
InvoiceSetSubscription(h) ==
    /\ UNCHANGED <<unresolved, apiVars>>
    /\ hs[h].pc = "inv_set"
    /\ subscriptions' = db_set_subscription(subscriptions, hs[h].biz,
                            StatusFor(Ev(h).type), NULL, NULL, NULL, "starter")
    /\ subWrites' = [subWrites EXCEPT ![hs[h].id] = @ + 1]
    /\ IF DeactivatesKeys(Ev(h).type)
       THEN Goto(h, "deact") /\ UNCHANGED <<acked, applied>>
       ELSE Finish(h, "ok", TRUE)
    /\ UNCHANGED <<cfg_secret, businesses, customer_keys, processed, evt, minted>>

\* api.py:591-603
DeactivateKeys(h) ==
    /\ UNCHANGED <<unresolved, apiVars>>
    /\ hs[h].pc = "deact"
    /\ customer_keys' = db_deactivate_business_keys(customer_keys, hs[h].biz)
    /\ Finish(h, "ok", TRUE)
    /\ UNCHANGED <<cfg_secret, businesses, subscriptions, processed, evt,
                   minted, subWrites>>

DbSteps == {"seen", "mark", "ensure", "co_set", "co_key", "resolve", "inv_set", "deact"}

\* a database round-trip raises: nothing is committed, FastAPI answers 500
DbFail(h) ==
    /\ UNCHANGED <<unresolved, apiVars>>
    /\ hs[h].pc \in DbSteps
    /\ hs' = [hs EXCEPT ![h].pc = "done", ![h].resp = "500"]
    /\ UNCHANGED <<cfg_secret, tables, processed, evt, acked, applied, minted, subWrites>>

\* the response is sent and the handler takes the next delivery. The event
\* object goes with the last delivery that holds it: a later delivery of the id
\* finds it in the ledger and returns at api.py:431 before reading the event.
Return(h) ==
    /\ UNCHANGED <<unresolved, apiVars>>
    /\ hs[h].pc = "done"
    /\ hs' = [hs EXCEPT ![h] = Idle]
    /\ evt' = IF hs[h].id \in EventIds
                 /\ \A o \in Handlers \ {h} : ~(InFlight(o) /\ hs[o].id = hs[h].id)
              THEN [evt EXCEPT ![hs[h].id] = NoEvent]
              ELSE evt
    /\ UNCHANGED <<cfg_secret, tables, processed, acked, applied, minted, subWrites>>

Step(h) ==
    \/ SeenCheck(h)
    \/ \E ev \in Events : Mark(h, ev)
    \/ EnsureBusiness(h)
    \/ CheckoutSetSubscription(h)
    \/ CheckoutAddKey(h)
    \/ CheckoutNotify(h)
    \/ Resolve(h)
    \/ InvoiceSetSubscription(h)
    \/ DeactivateKeys(h)
    \/ DbFail(h)
    \/ Return(h)

Next ==
    \E h \in Handlers :
        \/ RejectUnverified(h)
        \/ \E id \in 1..MaxRaceEvents : Receive(h, id)
        \/ Step(h)

Spec == Init /\ [][Next]_vars

\* one worker: stripe_webhook is an async def whose database calls block, so a
\* worker runs a delivery from api.py:428 to its return before it takes another
Worker == "h1"

SeqNext ==
    \/ RejectUnverified(Worker)
    \/ \E id \in EventIds : Receive(Worker, id)
    \/ Step(Worker)

SeqSpec == Init /\ [][SeqNext]_vars

-----------------------------------------------------------------------------
(* The tenant endpoints, src/api.py:176-206 and 641-685. The endpoints are    *)
(* plain def functions, which FastAPI runs on the threads of a pool: a        *)
(* request is a thread that moves from one access of the shared state (the   *)
(* tables, _hits) to the next.                                                *)

\* the request ends with an HTTP status, at the position it had reached
Answer(t, resp) ==
    rq' = [rq EXCEPT ![t].pc = "done", ![t].resp = resp, ![t].at = rq[t].pc]

\* the clock moves on
Tick(d) ==
    /\ now + d <= MaxTime
    /\ now' = now + d
    /\ UNCHANGED <<hookVars, billVars, customer_keys, cfg_admin, hits, rq, admitted>>

\* a call of rate_limit(api_key) on its own
CallRateLimit(t, hdr) ==
    /\ rq[t].pc = "idle"
    /\ rq' = [rq EXCEPT ![t] = [Ready EXCEPT !.pc = "rl_read", !.op = "rate_limit",
                                              !.hdr = hdr]]
    /\ UNCHANGED <<hookVars, billVars, customer_keys, cfg_admin, hits, now, admitted>>

RateRead_AppendsFirst(t) ==
    /\ rq[t].pc = "rl_read"
    /\ LET timestamps == Evict(hits[rq[t].hdr], now) IN
         IF OverLimit(timestamps)
         THEN /\ Answer(t, "429")
              /\ hits' = [hits EXCEPT ![rq[t].hdr] = Append(timestamps, now)]
         ELSE /\ rq' = [rq EXCEPT ![t].pc = "rl_write", ![t].t = now,
                                  ![t].ts = timestamps]
              /\ UNCHANGED hits
    /\ UNCHANGED <<hookVars, billVars, customer_keys, cfg_admin, now, admitted>>

\* api.py:658-666: the clock and _hits are read, the old timestamps dropped,
\* the length checked
RateRead(t) ==
    /\ rq[t].pc = "rl_read"
    /\ LET timestamps == Evict(hits[rq[t].hdr], now) IN
         IF OverLimit(timestamps)
         THEN Answer(t, "429")
         ELSE rq' = [rq EXCEPT ![t].pc = "rl_write", ![t].t = now,
                               ![t].ts = timestamps]
    /\ UNCHANGED <<hookVars, billVars, customer_keys, cfg_admin, hits, now, admitted>>

\* where a request goes once rate_limit has admitted it: the tenant endpoints
\* to get_business_from_key, /analyze_admin to analyze_review (api.py:253),
\* /summary_admin to db_fetch_reviews (api.py:291)
AfterRateLimit(op) ==
    CASE op = "analyze_admin" -> "classify"
      [] op = "summary_admin" -> "fetch"
      [] OTHER -> "getbiz"

\* api.py:668-669: the call is admitted: its timestamp is appended to the list
\* read and the list is stored
RateWrite(t) ==
    /\ rq[t].pc = "rl_write"
    /\ hits' = [hits EXCEPT ![rq[t].hdr] = Append(rq[t].ts, rq[t].t)]
    /\ admitted' = [admitted EXCEPT ![rq[t].hdr] = Append(@, rq[t].t)]
    /\ IF rq[t].op # "rate_limit"
       THEN rq' = [rq EXCEPT ![t].pc = AfterRateLimit(rq[t].op), ![t].ts = <<>>]
       ELSE rq' = [rq EXCEPT ![t].pc = "done", ![t].resp = "200", ![t].ts = <<>>,
                             ![t].at = "rl_write"]
    /\ UNCHANGED <<hookVars, billVars, customer_keys, cfg_admin, now>>

\* POST /keys/rotate arrives with an x-api-key header
CallRotateKey(t, hdr) ==
    /\ rq[t].pc = "idle"
    /\ rq' = [rq EXCEPT ![t] = [Ready EXCEPT !.pc = "verify", !.op = "rotate",
                                              !.hdr = hdr]]
    /\ UNCHANGED <<hookVars, billVars, customer_keys, cfg_admin, hits, now, admitted>>

Verify_RateLimitsFirst(t) ==
    /\ rq[t].pc = "verify"
    /\ rq' = [rq EXCEPT ![t].pc = "rl_read",
                        ![t].reads = @ \cup KeyReads(cfg_admin, rq[t].hdr)]
    /\ UNCHANGED <<hookVars, billVars, customer_keys, cfg_admin, hits, now, admitted>>

\* the first statement of every tenant endpoint: api.py:112, 142, 178, 214, 269
Verify(t) ==
    /\ rq[t].pc = "verify"
    /\ IF verify_api_key(customer_keys, cfg_admin, rq[t].hdr) = "401"
       THEN rq' = [rq EXCEPT ![t].pc = "done", ![t].resp = "401", ![t].at = "verify",
                             ![t].reads = @ \cup KeyReads(cfg_admin, rq[t].hdr)]
       ELSE rq' = [rq EXCEPT ![t].pc = "rl_read",
                             ![t].reads = @ \cup KeyReads(cfg_admin, rq[t].hdr)]
    /\ UNCHANGED <<hookVars, billVars, customer_keys, cfg_admin, hits, now, admitted>>

\* where a tenant endpoint goes once the key has named its tenant
AfterGetBusiness(op) ==
    CASE op = "rotate"  -> "ins"
      [] op = "analyze" -> "sub"
      [] op = "summary" -> "sub"
      [] op = "me"      -> "me"
      [] op = "portal"  -> "portal"

\* the third statement of every tenant endpoint and the refusal of the admin
\* secret: api.py:115-117, 145-147, 181-183, 217-219, 272-274
GetBusiness(t) ==
    /\ rq[t].pc = "getbiz"
    /\ LET b == get_business_from_key(customer_keys, cfg_admin, rq[t].hdr)
           r == rq[t].reads \cup KeyReads(cfg_admin, rq[t].hdr) IN
         CASE b = "401" ->
                rq' = [rq EXCEPT ![t].pc = "done", ![t].resp = "401",
                                 ![t].at = "getbiz", ![t].reads = r]
           [] b = "__admin__" ->
                rq' = [rq EXCEPT ![t].pc = "done", ![t].resp = "400",
                                 ![t].at = "getbiz", ![t].reads = r]
           [] OTHER ->
                rq' = [rq EXCEPT ![t].pc = AfterGetBusiness(rq[t].op), ![t].biz = b,
                                 ![t].reads = r]
    /\ UNCHANGED <<hookVars, billVars, customer_keys, cfg_admin, hits, now, admitted>>

\* api.py:191-196: the INSERT runs inside the transaction
RotateInsert(t) ==
    /\ rq[t].pc = "ins"
    /\ rq' = [rq EXCEPT ![t].pc = "upd"]
    /\ UNCHANGED <<hookVars, billVars, customer_keys, cfg_admin, hits, now, admitted>>

\* api.py:198-202: the UPDATE runs inside the transaction
RotateUpdate(t) ==
    /\ rq[t].pc = "upd"
    /\ rq' = [rq EXCEPT ![t].pc = "commit"]
    /\ UNCHANGED <<hookVars, billVars, customer_keys, cfg_admin, hits, now, admitted>>

\* api.py:204-206: the commit publishes both writes and the new key is
\* returned; the table holds at most rows rows
RotateCommitWithin(t, rows) ==
    /\ rq[t].pc = "commit"
    /\ Len(customer_keys) < rows
    /\ customer_keys' = rotate_key_writes(customer_keys, Strip(rq[t].hdr), rq[t].biz)
    /\ rq' = [rq EXCEPT ![t].pc = "done", ![t].resp = "200", ![t].at = "commit",
                         ![t].key = Len(customer_keys) + 1]
    /\ UNCHANGED <<hookVars, billVars, cfg_admin, hits, now, admitted>>

RotateCommit(t) == RotateCommitWithin(t, MaxKeys)

\* a tenant endpoint other than /keys/rotate arrives with an x-api-key header:
\* POST /analyze, GET /summary, GET /me, POST /billing/portal
TenantOps == {"analyze", "summary", "me", "portal"}

CallTenant(t, op, hdr) ==
    /\ rq[t].pc = "idle"
    /\ op \in TenantOps
    /\ rq' = [rq EXCEPT ![t] = [Ready EXCEPT !.pc = "verify", !.op = op, !.hdr = hdr]]
    /\ UNCHANGED <<hookVars, billVars, customer_keys, cfg_admin, hits, now, admitted>>

\* the detail of the 402: api.py:225, 281
InactiveDetail(status) == "Subscription inactive"

\* api.py:221-225, 276-281: business_from_key.strip().lower(), the status is
\* read and compared with "active"
SubscriptionGate(t) ==
    /\ rq[t].pc = "sub"
    /\ LET b == Norm(rq[t].biz)
           status == db_get_subscription_status(subscriptions, b) IN
         IF status # "active"
         THEN rq' = [rq EXCEPT ![t].pc = "done", ![t].resp = "402", ![t].at = "sub",
                               ![t].biz = b, ![t].detail = InactiveDetail(status),
                               ![t].reads = @ \cup {"subscriptions"}]
         ELSE rq' = [rq EXCEPT ![t].pc = IF rq[t].op = "analyze" THEN "classify"
                                         ELSE "fetch",
                               ![t].biz = b, ![t].reads = @ \cup {"subscriptions"}]
    /\ UNCHANGED <<hookVars, billVars, customer_keys, cfg_admin, hits, now, admitted>>

\* api.py:227-234: analyze_review builds the record
Classify(t) ==
    /\ rq[t].pc = "classify"
    /\ rq' = [rq EXCEPT ![t].pc = "insert"]
    /\ UNCHANGED <<hookVars, billVars, customer_keys, cfg_admin, hits, now, admitted>>

db_insert_review(tbl, b) == [tbl EXCEPT ![b] = @ + 1]

\* api.py:236-238, 262-265: the review is stored and returned; an /analyze
\* request has passed every gate
InsertReview(t) ==
    /\ rq[t].pc = "insert"
    /\ reviews' = db_insert_review(reviews, rq[t].biz)
    /\ served' = IF rq[t].op = "analyze" THEN [served EXCEPT ![rq[t].biz] = @ + 1]
                 ELSE served
    /\ rq' = [rq EXCEPT ![t].pc = "done", ![t].resp = "200", ![t].at = "insert"]
    /\ UNCHANGED <<hookVars, usage_daily, today, quota, customer_keys, cfg_admin,
                   hits, now, admitted>>

\* api.py:283-284, 291-292: the tenant's reviews are fetched and summarized
FetchReviews(t) ==
    /\ rq[t].pc = "fetch"
    /\ rq' = [rq EXCEPT ![t].pc = "done", ![t].resp = "200", ![t].at = "fetch",
                         ![t].reads = @ \cup {"reviews"}]
    /\ UNCHANGED <<hookVars, billVars, customer_keys, cfg_admin, hits, now, admitted>>

\* api.py:149-174: the tenant's row joined with its subscription
MeRead(t) ==
    /\ rq[t].pc = "me"
    /\ rq' = [rq EXCEPT ![t].pc = "done", ![t].at = "me",
                         ![t].resp = IF businesses[rq[t].biz] = NoRow THEN "404"
                                     ELSE "200",
                         ![t].reads = @ \cup {"businesses", "subscriptions"}]
    /\ UNCHANGED <<hookVars, billVars, customer_keys, cfg_admin, hits, now, admitted>>

\* api.py:119-138: the tenant's stripe_customer_id is read and a portal
\* session opened for it
PortalRead(t) ==
    /\ rq[t].pc = "portal"
    /\ rq' = [rq EXCEPT ![t].pc = "done", ![t].at = "portal",
                         ![t].resp = IF subscriptions[rq[t].biz] = NoRow
                                        \/ subscriptions[rq[t].biz].cus = NULL
                                     THEN "400" ELSE "200",
                         ![t].reads = @ \cup {"subscriptions"}]
    /\ UNCHANGED <<hookVars, billVars, customer_keys, cfg_admin, hits, now, admitted>>

\* the calendar day of the database moves on
NewDay ==
    /\ today < MaxDay
    /\ today' = today + 1
    /\ UNCHANGED <<hookVars, customer_keys, cfg_admin, hits, now, rq, admitted,
                   reviews, usage_daily, served, quota>>

ApiDbSteps == {"verify", "getbiz", "ins", "upd", "commit",
               "sub", "classify", "insert", "fetch", "me", "portal", "admin_write"}

\* a database call of the request raises (at "classify", the call of the
\* model): FastAPI answers 500. verify_api_key and get_business_from_key make
\* no database call for an absent header or the admin secret.
ApiDbFail(t) ==
    /\ rq[t].pc \in ApiDbSteps
    /\ rq[t].pc \in {"verify", "getbiz"} => KeyReads(cfg_admin, rq[t].hdr) # {}
    /\ customer_keys' = Rollback(customer_keys, rq[t].pc, Strip(rq[t].hdr), rq[t].biz)
    /\ Answer(t, "500")
    /\ UNCHANGED <<hookVars, billVars, cfg_admin, hits, now, admitted>>

\* the response is sent and the thread takes the next request
Respond(t) ==
    /\ rq[t].pc = "done"
    /\ rq' = [rq EXCEPT ![t] = Ready]
    /\ UNCHANGED <<hookVars, billVars, customer_keys, cfg_admin, hits, now, admitted>>

-----------------------------------------------------------------------------
(* The admin endpoints, src/api.py:365-405: require_admin, then one write *)

\* POST /admin/customer_keys/add with api_key = k, business_id = b
AdminAddCustomerKey(hdr, k, b) ==
    /\ k \in DOMAIN customer_keys \/ (k = Len(customer_keys) + 1 /\ k <= MaxKeys)
    /\ customer_keys' = IF require_admin(cfg_admin, hdr)
                        THEN db_upsert_customer_key(customer_keys, k, b)
                        ELSE customer_keys
    /\ UNCHANGED <<hookVars, apiVars>>

\* POST /admin/customer_keys/deactivate with api_key = k
AdminDeactivateCustomerKey(hdr, k) ==
    /\ customer_keys' = IF require_admin(cfg_admin, hdr)
                        THEN db_deactivate_customer_key(customer_keys, k)
                        ELSE customer_keys
    /\ UNCHANGED <<hookVars, apiVars>>

\* POST /admin/onboard_customer with business_id = b: a new key is issued
OnboardCustomer(hdr, b) ==
    /\ Len(customer_keys) < MaxKeys
    /\ customer_keys' = IF require_admin(cfg_admin, hdr)
                        THEN db_add_customer_key(customer_keys, b)
                        ELSE customer_keys
    /\ UNCHANGED <<hookVars, apiVars>>

-----------------------------------------------------------------------------
(* The admin endpoints as requests of a thread, src/api.py:243-292, 365-405: *)
(* the header is checked by require_admin, then the endpoint works with the  *)
(* api_key and the business_id of the request body or query.                 *)

KeyAdminOps == {"admin_add", "admin_deactivate", "onboard"}

AdminOps == KeyAdminOps \cup {"analyze_admin", "summary_admin"}

\* a request to an admin endpoint: k is its api_key (a key of the store or a
\* new one) and b its business_id, for the endpoints that take them
CallAdmin(t, op, hdr, k, b) ==
    /\ rq[t].pc = "idle"
    /\ op \in AdminOps
    /\ IF op \in {"admin_add", "admin_deactivate"}
       THEN k \in DOMAIN customer_keys \/ (k = Len(customer_keys) + 1 /\ k <= MaxKeys)
       ELSE k = EmptyKey
    /\ IF op = "admin_deactivate" THEN b = NULL ELSE b \in Biz
    /\ rq' = [rq EXCEPT ![t] = [Ready EXCEPT !.pc = "require_admin", !.op = op,
                                              !.hdr = hdr, !.key = k, !.biz = b]]
    /\ UNCHANGED <<hookVars, billVars, customer_keys, cfg_admin, hits, now, admitted>>

\* where an admin endpoint goes after require_admin: to rate_limit
\* (api.py:251, 289) or to its write
AfterRequireAdmin(op) ==
    IF op \in KeyAdminOps THEN "admin_write" ELSE "rl_read"

\* the first statement of every admin endpoint: api.py:250, 288, 367, 391, 402
RequireAdmin(t) ==
    /\ rq[t].pc = "require_admin"
    /\ IF require_admin(cfg_admin, rq[t].hdr)
       THEN rq' = [rq EXCEPT ![t].pc = AfterRequireAdmin(rq[t].op)]
       ELSE Answer(t, "403")
    /\ UNCHANGED <<hookVars, billVars, customer_keys, cfg_admin, hits, now, admitted>>

\* what the endpoint writes to the credential store: api.py:374, 394, 404
AdminWrites(tbl, op, k, b) ==
    CASE op = "admin_add"        -> db_upsert_customer_key(tbl, k, b)
      [] op = "admin_deactivate" -> db_deactivate_customer_key(tbl, k)
      [] op = "onboard"          -> db_add_customer_key(tbl, b)

AdminWrite(t) ==
    /\ rq[t].pc = "admin_write"
    /\ rq[t].op = "onboard" => Len(customer_keys) < MaxKeys
    /\ customer_keys' = AdminWrites(customer_keys, rq[t].op, rq[t].key, rq[t].biz)
    /\ rq' = [rq EXCEPT ![t].pc = "done", ![t].resp = "200", ![t].at = "admin_write"]
    /\ UNCHANGED <<hookVars, billVars, cfg_admin, hits, now, admitted>>

-----------------------------------------------------------------------------
(* Specifications of the endpoints *)

\* the webhook is at rest
HookIdle ==
    /\ cfg_secret = TRUE
    /\ processed = {}
    /\ evt = [i \in EventIds |-> NoEvent]
    /\ hs = [h \in Handlers |-> Idle]
    /\ acked = {}
    /\ applied = {}
    /\ minted = [i \in EventIds |-> 0]
    /\ subWrites = [i \in EventIds |-> 0]
    /\ unresolved = {}

\* the header values the rate limiter is called with: a key and the same key
\* with whitespace around it
RateKeys == {Header(1, FALSE), Header(1, TRUE)}

RateInit ==
    /\ HookIdle
    /\ businesses = SeededBusinesses
    /\ subscriptions = ProSubscriptions
    /\ customer_keys = <<[biz |-> "x", active |-> TRUE]>>
    /\ cfg_admin = TRUE
    /\ ApiIdle

\* the calls of rate_limit, one after the other
RateNext ==
    \/ \E d \in Advances : Tick(d)
    \/ \E hdr \in RateKeys : CallRateLimit("t1", hdr)
    \/ RateRead("t1")
    \/ RateWrite("t1")
    \/ Respond("t1")

RateSpec == RateInit /\ [][RateNext]_vars

\* the calls of rate_limit on the threads of the pool within one window, until
\* a header value has been admitted once more than the limit
RaceNext ==
    \E t \in Threads :
          \/ \E hdr \in RateKeys :
                Len(admitted[hdr]) <= RATE_LIMIT_PER_MIN /\ CallRateLimit(t, hdr)
          \/ RateRead(t)
          \/ RateWrite(t)
          \/ Respond(t)

RaceSpec == RateInit /\ [][RaceNext]_vars

\* the header values the admin endpoints are called with
AdminHeaders == {Header(AdminSecret, TRUE), Header(1, FALSE)}

KeyInit ==
    /\ HookIdle
    /\ \/ /\ businesses = EmptyBusinesses
          /\ subscriptions = EmptySubscriptions
          /\ customer_keys = <<>>
       \/ /\ businesses = SeededBusinesses
          /\ subscriptions = ProSubscriptions
          /\ customer_keys = <<[biz |-> "x", active |-> TRUE]>>
       \/ /\ businesses = SeededBusinesses
          /\ subscriptions = CanceledSubscriptions
          /\ customer_keys = <<[biz |-> "x", active |-> FALSE]>>
    /\ cfg_admin \in BOOLEAN
    /\ ApiIdle

\* the header values /keys/rotate is called with: none, blank, an unknown key,
\* the first key as it is and with whitespace around it
KeyHeaders == {NoHeader, Header(EmptyKey, TRUE), Header(Bogus, FALSE),
               Header(1, FALSE), Header(1, TRUE)}

\* the rotations, one request at a time, and the admin's writes to the
\* credential store
KeyNext ==
    \/ \E hdr \in KeyHeaders : CallRotateKey("t1", hdr)
    \/ Verify("t1")
    \/ RateRead("t1")
    \/ RateWrite("t1")
    \/ GetBusiness("t1")
    \/ RotateInsert("t1")
    \/ RotateUpdate("t1")
    \/ RotateCommit("t1")
    \/ ApiDbFail("t1")
    \/ Respond("t1")
    \/ \E hdr \in AdminHeaders, k \in KeyIds, b \in Biz : AdminAddCustomerKey(hdr, k, b)
    \/ \E hdr \in AdminHeaders, k \in KeyIds : AdminDeactivateCustomerKey(hdr, k)
    \/ \E hdr \in AdminHeaders, b \in Biz : OnboardCustomer(hdr, b)

KeySpec == KeyInit /\ [][KeyNext]_vars

\* a deployment with two tenants: x went through a checkout on the starter
\* plan and its subscription is active, past due (a failed payment leaves the
\* key active) or canceled (the admin added a key afterwards); y was onboarded
\* by the admin and has no subscription row. usage_daily holds what was
\* recorded for x today: nothing, or as many operations as the plan allows.
GateSubscriptions ==
    {[EmptySubscriptions EXCEPT !["x"] =
         [cus |-> "c1", sub |-> "s1", status |-> s, period_end |-> NULL,
          plan |-> "starter"]] : s \in {"active", "past_due", "canceled"}}

GateInit ==
    /\ HookIdle
    /\ businesses = SeededBusinesses
    /\ subscriptions \in GateSubscriptions
    /\ customer_keys = <<[biz |-> "x", active |-> TRUE], [biz |-> "y", active |-> TRUE]>>
    /\ cfg_admin = TRUE
    /\ hits = [hdr \in Headers |-> <<>>]
    /\ now = 0
    /\ rq = [t \in Threads |-> Ready]
    /\ admitted = [hdr \in Headers |-> <<>>]
    /\ reviews = [b \in Biz |-> 0]
    /\ \E used \in {0, PLAN_LIMITS["starter"]} :
          usage_daily = [b \in Biz |-> [d \in Days |->
                            IF b = "x" /\ d = 1 THEN used ELSE 0]]
    /\ today = 1
    /\ served = [b \in Biz |-> 0]
    /\ quota = NoQuota

\* the header values the tenant endpoints are called with: none, an unknown
\* key, the key of x, the key of y, the admin secret
GateHeaders == {NoHeader, Header(Bogus, FALSE), Header(1, FALSE), Header(2, FALSE),
                Header(AdminSecret, FALSE)}

\* the requests to the tenant endpoints, one at a time, over two days
GateNext ==
    \/ \E op \in TenantOps, hdr \in GateHeaders : CallTenant("t1", op, hdr)
    \/ Verify("t1")
    \/ RateRead("t1")
    \/ RateWrite("t1")
    \/ GetBusiness("t1")
    \/ SubscriptionGate("t1")
    \/ Classify("t1")
    \/ InsertReview("t1")
    \/ FetchReviews("t1")
    \/ MeRead("t1")
    \/ PortalRead("t1")
    \/ ApiDbFail("t1")
    \/ Respond("t1")
    \/ NewDay

GateSpec == GateInit /\ [][GateNext]_vars

\* the plan column of a subscription row: NOT NULL DEFAULT 'starter' in db_init,
\* yet any text, and db_get_plan_for_business provides for a null
Plans == {NULL, "", "starter", "pro", "team"}

\* the analyze_count of the day's row
MaxUsed == 201

\* the tenant's subscription row and its count for the day, as
\* enforce_plan_limit can find them
PlanInit ==
    /\ HookIdle
    /\ businesses = SeededBusinesses
    /\ \/ subscriptions = EmptySubscriptions
       \/ \E p \in Plans :
             subscriptions = [EmptySubscriptions EXCEPT !["x"] =
                 [cus |-> "c1", sub |-> "s1", status |-> "active",
                  period_end |-> NULL, plan |-> p]]
    /\ customer_keys = <<[biz |-> "x", active |-> TRUE]>>
    /\ cfg_admin = TRUE
    /\ hits = [hdr \in Headers |-> <<>>]
    /\ now = 0
    /\ rq = [t \in Threads |-> Ready]
    /\ admitted = [hdr \in Headers |-> <<>>]
    /\ reviews = [b \in Biz |-> 0]
    /\ \E used \in 0..MaxUsed :
          usage_daily = [b \in Biz |-> [d \in Days |->
                            IF b = "x" /\ d = 1 THEN used ELSE 0]]
    /\ today = 1
    /\ served = [b \in Biz |-> 0]
    /\ quota = NoQuota

\* db.py:135-141 called for tenant b
EnforcePlanLimit(b) ==
    /\ quota' = [biz |-> b, day |-> today,
                 out |-> enforce_plan_limit(subscriptions, usage_daily, b, today)]
    /\ UNCHANGED <<hookVars, customer_keys, cfg_admin, hits, now, rq, admitted,
                   reviews, usage_daily, today, served>>

\* the calls of enforce_plan_limit for the tenant, over two days
PlanNext ==
    \/ EnforcePlanLimit("x")
    \/ NewDay

PlanSpec == PlanInit /\ [][PlanNext]_vars

\* a deployment with tenant x and its key, with or without INTERNAL_API_KEY
AdminInit ==
    /\ HookIdle
    /\ businesses = SeededBusinesses
    /\ subscriptions = ProSubscriptions
    /\ customer_keys = <<[biz |-> "x", active |-> TRUE]>>
    /\ cfg_admin \in BOOLEAN
    /\ ApiIdle

\* the header values of the requests: the admin secret with whitespace around
\* it and the key of tenant x
CallerHeaders == {Header(AdminSecret, TRUE), Header(1, FALSE)}

\* the tenant endpoints and the admin endpoints, called with the admin secret
\* and with a tenant's key, one request at a time; the reviews are written by
\* /analyze_admin alone (GateSpec has the tenants' /analyze)
AdminNext ==
    \/ \E op \in TenantOps, hdr \in CallerHeaders :
          /\ op = "analyze" => Strip(hdr) = AdminSecret
          /\ CallTenant("t1", op, hdr)
    \/ \E hdr \in CallerHeaders : CallRotateKey("t1", hdr)
    \/ \E op \in AdminOps, hdr \in CallerHeaders, k \in {EmptyKey} \cup KeyIds,
          b \in Biz \cup {NULL} : CallAdmin("t1", op, hdr, k, b)
    \/ Verify("t1")
    \/ RequireAdmin("t1")
    \/ RateRead("t1")
    \/ RateWrite("t1")
    \/ GetBusiness("t1")
    \/ SubscriptionGate("t1")
    \/ Classify("t1")
    \/ InsertReview("t1")
    \/ FetchReviews("t1")
    \/ MeRead("t1")
    \/ PortalRead("t1")
    \/ RotateInsert("t1")
    \/ RotateUpdate("t1")
    \/ RotateCommit("t1")
    \/ AdminWrite("t1")
    \/ ApiDbFail("t1")
    \/ Respond("t1")

AdminSpec == AdminInit /\ [][AdminNext]_vars

\* a deployment in which tenant x is subscribed and holds one key
RotInit ==
    /\ HookIdle
    /\ businesses = SeededBusinesses
    /\ subscriptions = ProSubscriptions
    /\ customer_keys = <<[biz |-> "x", active |-> TRUE]>>
    /\ cfg_admin = TRUE
    /\ ApiIdle

\* the event that cancels the subscription of x
Cancellation ==
    [type |-> "customer.subscription.deleted", md |-> "", email |-> NULL,
     cus |-> "c1", sub |-> "s1"]

\* the rows the credential store may hold once every thread has rotated the key
MaxRotated == MaxKeys + Cardinality(Threads) - 1

\* rotations of the key of x on the threads of the pool, while the webhook
\* handles the cancellation of x and the admin deactivates the key; no
\* database call fails
RotNext ==
    \/ \E t \in Threads :
          \/ CallRotateKey(t, Header(1, FALSE))
          \/ Verify(t)
          \/ RateRead(t)
          \/ RateWrite(t)
          \/ GetBusiness(t)
          \/ RotateInsert(t)
          \/ RotateUpdate(t)
          \/ RotateCommitWithin(t, MaxRotated)
          \/ Respond(t)
    \/ Receive(Worker, 1)
    \/ SeenCheck(Worker)
    \/ Mark(Worker, Cancellation)
    \/ Resolve(Worker)
    \/ InvoiceSetSubscription(Worker)
    \/ DeactivateKeys(Worker)
    \/ Return(Worker)
    \/ AdminDeactivateCustomerKey(Header(AdminSecret, TRUE), 1)

RotSpec == RotInit /\ [][RotNext]_vars

\* a deployment in which tenant x, active or past due, holds an active key
\* and a deactivated one
OrderInit ==
    /\ HookIdle
    /\ businesses = SeededBusinesses
    /\ subscriptions \in
          {[EmptySubscriptions EXCEPT !["x"] =
               [cus |-> "c1", sub |-> "s1", status |-> st, period_end |-> NULL,
                plan |-> "starter"]] : st \in {"active", "past_due"}}
    /\ customer_keys = <<[biz |-> "x", active |-> TRUE], [biz |-> "x", active |-> FALSE]>>
    /\ cfg_admin = TRUE
    /\ ApiIdle

\* the header values of the requests: none, an unknown key, the active key as
\* it is stored and with whitespace around it, the deactivated key
OrderHeaders == {NoHeader, Header(Bogus, FALSE), Header(1, FALSE), Header(1, TRUE),
                 Header(2, FALSE)}

\* the requests to /summary, one at a time, with a moving clock
OrderNext ==
    \/ \E d \in Advances : Tick(d)
    \/ \E hdr \in OrderHeaders : CallTenant("t1", "summary", hdr)
    \/ Verify("t1")
    \/ RateRead("t1")
    \/ RateWrite("t1")
    \/ GetBusiness("t1")
    \/ SubscriptionGate("t1")
    \/ FetchReviews("t1")
    \/ ApiDbFail("t1")
    \/ Respond("t1")

OrderSpec == OrderInit /\ [][OrderNext]_vars

-----------------------------------------------------------------------------
(* Properties *)

\* handler h takes a step
Steps(h) == hs'[h] # hs[h]

\* handler h has returned 200 {"ok": True} from the branch of event type t
Handled(h, t) ==
    /\ hs[h].pc = "done"
    /\ hs[h].resp = "ok"
    /\ Ev(h).type = t

\* C1: once a delivery of an event id has been acknowledged, every step of a
\* later delivery of that id, one after the other, leaves the businesses,
\* subscriptions, customer_keys and processed-event tables as they are, writes
\* nothing on the event's behalf, and ends with already_processed (or with a
\* 500 when the ledger cannot be read).
C1_SecondDeliveryIsNoOp ==
    [][\A h \in Handlers :
          hs[h].id \in acked /\ Steps(h) =>
              /\ tables' = tables
              /\ processed' = processed
              /\ minted' = minted
              /\ subWrites' = subWrites
              /\ hs'[h].pc = "done" => hs'[h].resp \in {"already_processed", "500"}]_vars

\* a second delivery of an event that issued a credential has been answered
C1_Witness ==
    \E h \in Handlers :
        /\ hs[h].pc = "done"
        /\ hs[h].resp = "already_processed"
        /\ hs[h].id \in applied
        /\ minted[hs[h].id] = 1

\* C2: whatever the interleaving of the handlers, an event id leads to at most
\* one issued credential and at most one subscription write.
C2_EffectsAtMostOnce ==
    \A id \in EventIds : minted[id] <= 1 /\ subWrites[id] <= 1

\* C3: an event is acknowledged only once its effects are applied: the
\* provider, which redelivers until the acknowledgement, stops only after the
\* branch of the event ran to its return.
C3_AcknowledgedIsApplied == acked \subseteq applied

\* C4: when a first-seen checkout.session.completed with metadata.business_id
\* = x has been handled, tenant x exists, its subscription is active with the
\* references the event carries, and x holds exactly one active credential.
C4_CheckoutCompletion ==
    \A h \in Handlers :
        Handled(h, "checkout.session.completed") /\ Ev(h).md # "" =>
            LET x == Norm(Ev(h).md) IN
              /\ businesses[x] # NoRow
              /\ subscriptions[x] # NoRow
              /\ subscriptions[x].status = "active"
              /\ Ev(h).cus # NULL => subscriptions[x].cus = Ev(h).cus
              /\ Ev(h).sub # NULL => subscriptions[x].sub = Ev(h).sub
              /\ Cardinality(ActiveKeys(customer_keys, x)) = 1

\* C5: a credential is issued only on the first checkout completion: the
\* handler issues none to a tenant that holds an active one, so no tenant ever
\* holds two.
C5_NoDoubleIssuance ==
    \A b \in Biz : Cardinality(ActiveKeys(customer_keys, b)) <= 1

\* C6: when a first-seen customer.subscription.deleted that resolves to tenant
\* x has been handled, x's status is canceled, x holds no active credential
\* and every credential of x fails resolution.
C6_Cancellation ==
    \A h \in Handlers :
        Handled(h, "customer.subscription.deleted") /\ hs[h].biz # NULL =>
            /\ subscriptions[hs[h].biz].status = "canceled"
            /\ ActiveKeys(customer_keys, hs[h].biz) = {}
            /\ \A k \in DOMAIN customer_keys :
                   customer_keys[k].biz = hs[h].biz =>
                       db_get_business_for_key(customer_keys, k) = NULL

\* the cancellation of a tenant whose credential an earlier checkout issued
C6_Witness ==
    \E h \in Handlers :
        /\ Handled(h, "customer.subscription.deleted")
        /\ hs[h].biz # NULL
        /\ \E i \in EventIds : minted[i] = 1
        /\ \E k \in DOMAIN customer_keys : customer_keys[k].biz = hs[h].biz

\* C7: the status write and the deactivation are one step: in no state is the
\* cancel event recorded as processed and the tenant's status canceled by it
\* while a credential the tenant held before the event is still active. (With
\* one delivery in flight every credential of the tenant is one it held before
\* the event.)
C7_CancellationIsOneStep ==
    \A h \in Handlers :
        /\ hs[h].pc \in {"deact", "done"}
        /\ Ev(h).type = "customer.subscription.deleted"
        /\ hs[h].id \in processed
        /\ hs[h].biz # NULL
        /\ subscriptions[hs[h].biz].status = "canceled"
        => ActiveKeys(customer_keys, hs[h].biz) = {}

\* C8: canceled is terminal for a subscription reference: no handler's write
\* for an event that carries the reference of a canceled subscription record
\* moves the record's status away from canceled.
C8_CanceledIsTerminal ==
    [][\A h \in Handlers :
          /\ Steps(h)
          /\ hs[h].pc \in {"co_set", "inv_set"}
          /\ subscriptions[hs[h].biz] # NoRow
          /\ subscriptions[hs[h].biz].status = "canceled"
          /\ Ev(h).sub = subscriptions[hs[h].biz].sub
          => subscriptions'[hs[h].biz].status = "canceled"]_vars

\* C9: when a first-seen invoice.payment_failed that resolves to tenant x has
\* been handled, x's status is past_due; and no step of the handling of an
\* invoice.payment_failed writes the credential store, so every credential
\* that was active before the event is still active.
C9_PaymentFailureKeepsCredentials ==
    /\ [](\A h \in Handlers :
            Handled(h, "invoice.payment_failed") /\ hs[h].biz # NULL =>
                subscriptions[hs[h].biz].status = "past_due")
    /\ [][\A h \in Handlers :
            /\ Steps(h)
            /\ hs[h].id \in EventIds
            /\ "invoice.payment_failed" \in {evt[hs[h].id].type, evt'[hs[h].id].type}
            => customer_keys' = customer_keys]_vars

\* a payment failure of a tenant that holds an active credential was handled
C9_Witness ==
    \E h \in Handlers :
        /\ Handled(h, "invoice.payment_failed")
        /\ hs[h].biz # NULL
        /\ ActiveKeys(customer_keys, hs[h].biz) # {}

\* C10: the subscription write of invoice.payment_failed changes the status
\* alone: the tenant's plan, customer reference, subscription reference and
\* period end stay as they were, and so does every other tenant's record.
C10_PaymentFailureChangesStatusOnly ==
    [][\A h \in Handlers :
          /\ Steps(h)
          /\ hs[h].pc = "inv_set"
          /\ Ev(h).type = "invoice.payment_failed"
          /\ subscriptions' # subscriptions
          => /\ subscriptions'[hs[h].biz].plan = subscriptions[hs[h].biz].plan
             /\ subscriptions'[hs[h].biz].cus = subscriptions[hs[h].biz].cus
             /\ subscriptions'[hs[h].biz].sub = subscriptions[hs[h].biz].sub
             /\ subscriptions'[hs[h].biz].period_end = subscriptions[hs[h].biz].period_end
             /\ \A o \in Biz \ {hs[h].biz} : subscriptions'[o] = subscriptions[o]]_vars

\* neither reference of event ev maps to a subscription record
Unmapped(ev) ==
    /\ ev.sub = NULL \/ BySub(subscriptions, ev.sub) = {}
    /\ ev.cus = NULL \/ ByCus(subscriptions, ev.cus) = {}

\* handler h resolves the tenant of an event of type t
Resolves(h, t) ==
    /\ Steps(h)
    /\ hs[h].pc = "resolve"
    /\ Ev(h).type = t

\* the step of handler h drops the event: it returns 200 {"ok": True}, which
\* acknowledges it, and writes no subscription and no credential
Drops(h) ==
    /\ subscriptions' = subscriptions
    /\ customer_keys' = customer_keys
    /\ hs'[h].resp # "500" =>
           /\ hs'[h].pc = "done"
           /\ hs'[h].resp = "ok"
           /\ hs[h].id \in acked'

\* C11: when a first-seen invoice.payment_succeeded that resolves to a tenant
\* has been handled, the tenant's status is active; and when neither of its
\* references maps to a tenant, the lookup step answers 200 (unless the
\* database raises) and no subscription or credential row is created or changed.
C11_InvoicePaid ==
    /\ [](\A h \in Handlers :
            Handled(h, "invoice.payment_succeeded") /\ hs[h].biz # NULL =>
                subscriptions[hs[h].biz].status = "active")
    /\ [][\A h \in Handlers :
            Resolves(h, "invoice.payment_succeeded") /\ Unmapped(Ev(h)) => Drops(h)]_vars

\* a payment that resolved to a tenant and wrote its status has been handled
C11_Witness ==
    \E h \in Handlers :
        /\ Handled(h, "invoice.payment_succeeded")
        /\ hs[h].biz # NULL
        /\ subscriptions[hs[h].biz].status = "active"
        /\ subWrites[hs[h].id] = 1

\* C12: an invoice.payment_failed whose references map to no subscription
\* record is answered 200 (unless the database raises) and changes neither the
\* subscriptions nor the credentials; and a checkout.session.completed that
\* comes later with the same subscription reference, once handled, has
\* provisioned its tenant: the tenant exists, its subscription is active with
\* that reference, and the event issued it a credential that is active.
C12_OutOfOrderTolerance ==
    /\ [][\A h \in Handlers :
            Resolves(h, "invoice.payment_failed") /\ Unmapped(Ev(h)) => Drops(h)]_vars
    /\ [](\A h \in Handlers :
            /\ Handled(h, "checkout.session.completed")
            /\ Ev(h).md # ""
            /\ Ev(h).sub \in unresolved
            => LET x == Norm(Ev(h).md) IN
                 /\ businesses[x] # NoRow
                 /\ subscriptions[x] # NoRow
                 /\ subscriptions[x].status = "active"
                 /\ subscriptions[x].sub = Ev(h).sub
                 /\ minted[hs[h].id] = 1
                 /\ ActiveKeys(customer_keys, x) # {})

\* the checkout of a subscription whose payment failure came first was handled
C12_Witness ==
    \E h \in Handlers :
        /\ Handled(h, "checkout.session.completed")
        /\ Ev(h).md # ""
        /\ Ev(h).sub \in unresolved

\* what the resolution order gives for references (sub, cus): the holder of the
\* subscription reference when there is one, else the holder of the customer
\* reference when there is one, else none
ResolvesTo(b, sub, cus) ==
    IF sub # NULL /\ BySub(subscriptions, sub) # {}
    THEN b \in BySub(subscriptions, sub)
    ELSE IF cus # NULL /\ ByCus(subscriptions, cus) # {}
         THEN b \in ByCus(subscriptions, cus)
         ELSE b = NULL

\* C13: for all references and every reachable subscriptions table,
\* db_get_business_by_stripe(sub, cus) is the tenant that holds sub when one
\* does (even when another tenant holds cus), else the tenant that holds cus,
\* else None; and the invoice paid, invoice failed and subscription deleted
\* branches all go on with the tenant this order gives, or drop the event.
C13_ResolutionOrder ==
    /\ [](\A sub \in Sub \cup {NULL}, cus \in Cus \cup {NULL} :
            ResolvesTo(db_get_business_by_stripe(subscriptions, sub, cus), sub, cus))
    /\ [][\A h \in Handlers, t \in InvoiceTypes :
            Resolves(h, t) /\ hs'[h].resp # "500" =>
                /\ ResolvesTo(hs'[h].biz, Ev(h).sub, Ev(h).cus)
                /\ hs'[h].pc = IF hs'[h].biz = NULL THEN "done" ELSE "inv_set"]_vars

\* an event whose subscription reference is one tenant's and whose customer
\* reference is another's was resolved to the first
C13_Witness ==
    \E h \in Handlers :
        /\ hs[h].pc = "inv_set"
        /\ Ev(h).sub # NULL
        /\ Ev(h).cus # NULL
        /\ hs[h].biz \in BySub(subscriptions, Ev(h).sub)
        /\ ByCus(subscriptions, Ev(h).cus) # {}
        /\ hs[h].biz \notin ByCus(subscriptions, Ev(h).cus)

\* the timestamps of ts that lie in the 60 seconds up to instant t
InWindow(ts, t) == SelectSeq(ts, LAMBDA x : t - Window <= x /\ x <= t)

\* thread t runs the check of rate_limit
Checks(t) == rq[t].pc = "rl_read" /\ rq'[t] # rq[t]

\* C18: with the calls of rate_limit one after the other, for every header
\* value: no 60 seconds hold more than RATE_LIMIT_PER_MIN admitted calls; a
\* call made when RATE_LIMIT_PER_MIN calls were admitted in the last 60 seconds
\* fails with 429; and a call made when fewer were (all of them when the last
\* admitted call is 61 seconds old) is admitted.
C18_SlidingWindow ==
    /\ [](\A hdr \in Headers : \A i \in DOMAIN admitted[hdr] :
            Len(InWindow(admitted[hdr], admitted[hdr][i])) <= RATE_LIMIT_PER_MIN)
    /\ [][\A t \in Threads :
            Checks(t) =>
                IF Len(InWindow(admitted[rq[t].hdr], now)) >= RATE_LIMIT_PER_MIN
                THEN rq'[t].pc = "done" /\ rq'[t].resp = "429"
                ELSE rq'[t].pc = "rl_write"]_vars

\* after RATE_LIMIT_PER_MIN calls admitted at one instant, a call made 61
\* seconds later has been admitted
C18_Witness ==
    \E t \in Threads :
        /\ rq[t].pc = "done"
        /\ rq[t].resp = "200"
        /\ LET a == admitted[rq[t].hdr] IN
             /\ Len(a) = RATE_LIMIT_PER_MIN + 1
             /\ \A i \in 1..RATE_LIMIT_PER_MIN : a[i] = 0
             /\ a[Len(a)] = Window + 1
             /\ now = Window + 1

\* C19: on concurrent threads too, no header value is admitted more than
\* RATE_LIMIT_PER_MIN times in 60 seconds, and the stored list holds the
\* timestamp of every call admitted in the last 60 seconds.
C19_SerializedCheckThenAppend ==
    \A hdr \in Headers :
        /\ Len(InWindow(admitted[hdr], now)) <= RATE_LIMIT_PER_MIN
        /\ Len(InWindow(hits[hdr], now)) = Len(InWindow(admitted[hdr], now))

\* C20: a call that fails with 429 leaves _hits as it was, for every header
\* value, so the calls admitted later are the ones that would have been.
C20_RejectedCallKeepsTimestamps ==
    [][\A t \in Threads :
          Checks(t) /\ rq'[t].resp = "429" => hits' = hits /\ admitted' = admitted]_vars

\* a call was rejected while the list of its header value was full
C20_Witness ==
    \E t \in Threads :
        /\ rq[t].pc = "done"
        /\ rq[t].resp = "429"
        /\ Len(hits[rq[t].hdr]) = RATE_LIMIT_PER_MIN

\* thread t, serving /keys/rotate, takes a step
Rotates(t) == rq[t].op = "rotate" /\ rq'[t] # rq[t]

\* C14: the only step of a rotation that changes the credential store is its
\* commit, and that one step changes the old and the new credential together:
\* before it the new credential does not exist, after it the request returns
\* the new credential, which resolves to the tenant the request resolved, and
\* the old credential fails resolution with 401; every other row is as it was.
\* So no state read by another request has the new credential active beside
\* the old one, or the old one deactivated by the rotation without the new one.
C14_RotationIsAtomic ==
    [][\A t \in Threads :
          Rotates(t) /\ customer_keys' # customer_keys =>
              LET old == Strip(rq[t].hdr)
                  new == rq'[t].key
              IN /\ rq'[t].pc = "done"
                 /\ rq'[t].resp = "200"
                 /\ new \notin DOMAIN customer_keys
                 /\ get_business_from_key(customer_keys', cfg_admin, Header(new, FALSE))
                        = rq[t].biz
                 /\ verify_api_key(customer_keys', cfg_admin, Header(old, FALSE)) = "401"
                 /\ get_business_from_key(customer_keys', cfg_admin, rq[t].hdr) = "401"
                 /\ \A k \in DOMAIN customer_keys \ {old} :
                        customer_keys'[k] = customer_keys[k]]_vars

\* a rotation has returned: the old credential is stored inactive, the new
\* one active
C14_Witness ==
    \E t \in Threads :
        /\ rq[t].pc = "done"
        /\ rq[t].op = "rotate"
        /\ rq[t].resp = "200"
        /\ Strip(rq[t].hdr) \in DOMAIN customer_keys
        /\ ~customer_keys[Strip(rq[t].hdr)].active
        /\ rq[t].key \in DOMAIN customer_keys
        /\ customer_keys[rq[t].key].active
        /\ customer_keys[rq[t].key].biz = rq[t].biz

\* C15: a rotation that fails (its INSERT, its UPDATE or its commit raises)
\* leaves the credential store as it was: the old credential is as active as
\* before, no new credential exists, and no tenant's number of active
\* credentials has changed.
C15_FailedRotationChangesNothing ==
    [][\A t \in Threads :
          Rotates(t) /\ rq'[t].resp = "500" =>
              /\ customer_keys' = customer_keys
              /\ \A b \in Biz : ActiveKeys(customer_keys', b) = ActiveKeys(customer_keys, b)]_vars

\* a rotation failed after its INSERT had run: the old credential is still
\* active and is the only row
C15_Witness ==
    \E t \in Threads :
        /\ rq[t].pc = "done"
        /\ rq[t].op = "rotate"
        /\ rq[t].resp = "500"
        /\ rq[t].at \in {"upd", "commit"}
        /\ Len(customer_keys) = 1
        /\ db_get_business_for_key(customer_keys, Strip(rq[t].hdr)) = rq[t].biz

\* header value hdr carries no credential that may pass: it is missing or
\* empty, or its key is not in the store, or the key's row is inactive
BadCredential(hdr) ==
    \/ ~hdr.sent
    \/ Strip(hdr) = EmptyKey
    \/ Strip(hdr) \notin DOMAIN customer_keys
    \/ ~customer_keys[Strip(hdr)].active

\* C16: for every header value other than the admin secret and every reachable
\* credential store, verify_api_key and get_business_from_key raise 401 when
\* the credential is missing, empty, unknown or inactive, and otherwise
\* verify_api_key returns and get_business_from_key gives the tenant of the
\* key's row; and the requests go on or stop accordingly.
C16_ResolutionRejectsBadCredentials ==
    /\ [](\A hdr \in Headers :
            ~IsAdmin(cfg_admin, hdr) =>
                IF BadCredential(hdr)
                THEN /\ verify_api_key(customer_keys, cfg_admin, hdr) = "401"
                     /\ get_business_from_key(customer_keys, cfg_admin, hdr) = "401"
                ELSE /\ verify_api_key(customer_keys, cfg_admin, hdr) = "ok"
                     /\ get_business_from_key(customer_keys, cfg_admin, hdr)
                            = customer_keys[Strip(hdr)].biz)
    /\ [][\A t \in Threads :
            /\ rq'[t] # rq[t]
            /\ rq[t].pc \in {"verify", "getbiz"}
            /\ ~IsAdmin(cfg_admin, rq[t].hdr)
            /\ rq'[t].resp # "500"
            => IF BadCredential(rq[t].hdr)
               THEN rq'[t].pc = "done" /\ rq'[t].resp = "401"
               ELSE /\ rq'[t].pc # "done"
                    /\ rq[t].pc = "getbiz" =>
                           rq'[t].biz = customer_keys[Strip(rq[t].hdr)].biz]_vars

\* a request that presented a stored, inactive credential was answered 401
C16_Witness ==
    \E t \in Threads :
        /\ rq[t].pc = "done"
        /\ rq[t].resp = "401"
        /\ Strip(rq[t].hdr) \in DOMAIN customer_keys
        /\ ~customer_keys[Strip(rq[t].hdr)].active

\* C17: no step changes the tenant an active credential resolves to, and a
\* credential that is stored inactive fails resolution after every step.
C17_DeactivationIsPermanent ==
    [][\A k \in DOMAIN customer_keys :
          IF customer_keys[k].active
          THEN db_get_business_for_key(customer_keys', k) \in {customer_keys[k].biz, NULL}
          ELSE db_get_business_for_key(customer_keys', k) = NULL]_vars

-----------------------------------------------------------------------------
(* Properties of the tenant endpoints' gates *)

\* request t has been answered
Answered(t) == rq[t].pc = "done"

\* request t is a billable call that went past the subscription gate
PastGate(t) ==
    \/ rq[t].pc \in {"classify", "insert", "fetch"}
    \/ Answered(t) /\ rq[t].at \in {"classify", "insert", "fetch"}

\* C21: a billable call (/analyze, /summary) goes past the subscription gate
\* only when its tenant's status is exactly active; a call stopped at the gate
\* is answered with a failure that carries the tenant's status, so that the
\* failure a tenant with another non-active status would get differs from it.
C21_SubscriptionGate ==
    \A t \in Threads :
        /\ PastGate(t) =>
              db_get_subscription_status(subscriptions, rq[t].biz) = "active"
        /\ Answered(t) /\ rq[t].resp = "402" =>
              LET mine == db_get_subscription_status(subscriptions, rq[t].biz) IN
                /\ mine # "active"
                /\ \A o \in Biz :
                       LET theirs == db_get_subscription_status(subscriptions, o) IN
                         theirs \notin {"active", mine} =>
                             InactiveDetail(theirs) # rq[t].detail

\* C22: an authorized /analyze call of a tenant whose count for the day has
\* reached the limit of its plan (30 of 30 on starter) goes no further than
\* the quota check: nothing is classified and no review is inserted for it. On
\* a new day the count is 0 and the call goes on.
C22_DailyQuota ==
    \A t \in Threads :
        rq[t].op = "analyze" /\ PastGate(t) =>
            db_get_usage_today(usage_daily, rq[t].biz, today)
                < LimitOf(db_get_plan_for_business(subscriptions, rq[t].biz))

\* C23: a step in which an /analyze request passes the last gate adds exactly
\* one to its tenant's count for the day, and no other step of a request
\* changes a count.
C23_UsageCountsAdmitted ==
    [][\A b \in Biz :
          db_get_usage_today(usage_daily', b, today')
              = db_get_usage_today(usage_daily, b, today) + (served'[b] - served[b])]_<<usage_daily, served, rq>>

\* C24: enforce_plan_limit works with the limit 200 for a tenant whose row
\* names the plan pro and with 30 for every other tenant (plan starter, no
\* row, a null plan, a plan that PLAN_LIMITS does not know), and it raises
\* exactly when the count of the day has reached that limit.
C24_PlanCeilings ==
    quota # NoQuota /\ quota.day = today =>
        LET row == subscriptions[quota.biz]
            ceiling == IF row # NoRow /\ row.plan = "pro" THEN 200 ELSE 30
        IN /\ quota.out.limit = ceiling
           /\ quota.out.used = usage_daily[quota.biz][today]
           /\ quota.out.raised <=> usage_daily[quota.biz][today] >= ceiling

\* the call was refused for a tenant whose plan is unknown to PLAN_LIMITS, at
\* the starter limit
C24_Witness ==
    /\ quota # NoQuota
    /\ quota.out.raised
    /\ quota.out.used = 30
    /\ subscriptions[quota.biz] # NoRow
    /\ subscriptions[quota.biz].plan = "team"

-----------------------------------------------------------------------------
(* Properties of the webhook's rejections and acknowledgements *)

\* handler h answers a request whose event could not be verified: it goes
\* from api.py:409 to an exception without an event in hand
RejectsUnverified(h) == hs[h].pc = "idle" /\ hs'[h].pc = "done"

\* the verified event that handler h reads in this step (api.py:435)
Reads(h, ev) == hs[h].pc = "mark" /\ hs'[h].pc # "mark" /\ evt'[hs[h].id] = ev
                  /\ processed' # processed

\* C25: a request whose payload or signature cannot be verified, and every
\* request when no webhook secret is configured, is rejected (400, or 500
\* without a secret) in a step that leaves the event ledger, the
\* subscriptions, the tenants and the credential store as they are; without a
\* secret no request gets any further.
C25_UnverifiableTouchesNoLedger ==
    /\ [][\A h \in Handlers :
             RejectsUnverified(h) =>
                 /\ hs'[h].resp = IF cfg_secret THEN "400" ELSE "500"
                 /\ processed' = processed
                 /\ tables' = tables
                 /\ acked' = acked]_vars
    /\ [](~cfg_secret => \A h \in Handlers : hs[h].pc \in {"idle", "done"})

\* an unverifiable request has been rejected while the ledger held an event
\* and the tables a tenant
C25_Witness ==
    \E h \in Handlers :
        /\ hs[h].pc = "done"
        /\ hs[h].resp = "400"
        /\ processed # {}
        /\ \E b \in Biz : subscriptions[b] # NoRow
        /\ customer_keys # <<>>

\* C26: the step in which a verified checkout.session.completed without
\* metadata.business_id is read answers it with success, acknowledges it and
\* leaves the tenants, the subscriptions and the credential store as they
\* are; a later delivery of an id that was acknowledged this way, with nothing
\* written on its behalf, is answered with success again (already_processed),
\* or with a 500 when the ledger cannot be read, and writes nothing either.
C26_CheckoutWithoutMetadata ==
    /\ [][\A h \in Handlers : \A ev \in Events :
             Reads(h, ev) /\ ev.type = "checkout.session.completed" /\ ev.md = "" =>
                 /\ hs'[h].pc = "done"
                 /\ hs'[h].resp = "ok"
                 /\ hs[h].id \in acked'
                 /\ tables' = tables
                 /\ minted' = minted
                 /\ subWrites' = subWrites]_vars
    /\ [][\A h \in Handlers :
             /\ hs[h].id \in acked
             /\ minted[hs[h].id] = 0
             /\ subWrites[hs[h].id] = 0
             /\ Steps(h)
             => /\ tables' = tables
                /\ minted' = minted
                /\ subWrites' = subWrites
                /\ hs'[h].pc = "done" =>
                       hs'[h].resp \in {"already_processed", "500"}]_vars

\* a checkout without metadata has been acknowledged in a database that
\* holds no tenant, no subscription and no credential
C26_Witness ==
    \E h \in Handlers :
        /\ Handled(h, "checkout.session.completed")
        /\ Ev(h).md = ""
        /\ hs[h].id \in acked
        /\ businesses = EmptyBusinesses
        /\ subscriptions = EmptySubscriptions
        /\ customer_keys = <<>>

\* the four event types that stripe_webhook handles
HandledTypes == {"checkout.session.completed"} \cup InvoiceTypes

\* C27: the step in which a verified event of a type other than the four
\* handled ones is read answers it with success ("ignored"), acknowledges it
\* and leaves the subscriptions, the tenants and the credential store as they
\* are, whatever they hold.
C27_UnknownTypesAreIgnored ==
    [][\A h \in Handlers : \A ev \in Events :
          Reads(h, ev) /\ ev.type \notin HandledTypes =>
              /\ hs'[h].pc = "done"
              /\ hs'[h].resp = "ignored"
              /\ hs[h].id \in acked'
              /\ tables' = tables
              /\ minted' = minted
              /\ subWrites' = subWrites]_vars

\* an event of an unknown type has been ignored in a database that holds a
\* tenant with an active subscription and a credential
C27_Witness ==
    \E h \in Handlers :
        /\ hs[h].pc = "done"
        /\ hs[h].resp = "ignored"
        /\ Ev(h).type = "customer.updated"
        /\ \E b \in Biz :
              /\ subscriptions[b] # NoRow
              /\ subscriptions[b].status = "active"
              /\ ActiveKeys(customer_keys, b) # {}

\* C28: in the checkout handler, whichever of the welcome email and the chat
\* notification fail, the step that attempts them answers with success,
\* acknowledges the event and leaves every table as it is: the tenant
\* exists, its subscription is active and the credential issued for the event
\* is in the store, as in the run in which both are delivered.
C28_NotificationFailuresSwallowed ==
    /\ [][\A h \in Handlers :
             hs[h].pc = "notify" /\ Steps(h) =>
                 /\ hs'[h].pc = "done"
                 /\ hs'[h].resp = "ok"
                 /\ hs[h].id \in acked'
                 /\ hs[h].id \in applied'
                 /\ tables' = tables
                 /\ processed' = processed]_vars
    /\ [](\A h \in Handlers :
             hs[h].pc = "done" /\ hs[h].failed # {} =>
                 /\ hs[h].resp = "ok"
                 /\ businesses[hs[h].biz] # NoRow
                 /\ subscriptions[hs[h].biz] # NoRow
                 /\ subscriptions[hs[h].biz].status = "active"
                 /\ minted[hs[h].id] = 1
                 /\ ActiveKeys(customer_keys, hs[h].biz) # {})

\* a checkout has been answered after both of its notifications failed
C28_Witness ==
    \E h \in Handlers :
        /\ Handled(h, "checkout.session.completed")
        /\ hs[h].failed = Notifications
        /\ minted[hs[h].id] = 1

-----------------------------------------------------------------------------
(* Properties of the admin credential *)

\* request t came to a tenant-scoped endpoint with the admin secret
AdminOnTenantEndpoint(t) ==
    /\ rq[t].op \in TenantOps \cup {"rotate"}
    /\ IsAdmin(cfg_admin, rq[t].hdr)

\* request t came to an admin endpoint and is past require_admin
PassedRequireAdmin(t) ==
    /\ rq[t].op \in AdminOps
    /\ rq[t].pc # "require_admin"
    /\ ~(Answered(t) /\ rq[t].at = "require_admin")

\* the rows of the credential store that a step adds or changes
Written(k) ==
    /\ k \in DOMAIN customer_keys'
    /\ k \in DOMAIN customer_keys => customer_keys'[k] # customer_keys[k]

-----------------------------------------------------------------------------
(* Properties of the external references *)

\* tenants a and b hold the same customer or the same subscription reference
SharesReference(a, b) ==
    /\ subscriptions[a] # NoRow
    /\ subscriptions[b] # NoRow
    /\ \/ subscriptions[a].cus # NULL /\ subscriptions[a].cus = subscriptions[b].cus
       \/ subscriptions[a].sub # NULL /\ subscriptions[a].sub = subscriptions[b].sub

\* the checkout that handler h is about to record for its tenant carries a
\* reference that another tenant's record holds
CarriesForeignReference(h) ==
    /\ hs[h].pc = "co_set"
    /\ \E a \in Biz \ {hs[h].biz} :
          /\ subscriptions[a] # NoRow
          /\ \/ Ev(h).cus # NULL /\ Ev(h).cus = subscriptions[a].cus
             \/ Ev(h).sub # NULL /\ Ev(h).sub = subscriptions[a].sub

\* C30: no two tenants' subscription records ever hold the same customer
\* reference or the same subscription reference; the step that would record
\* a checkout of one tenant with a reference another tenant holds changes no
\* subscription record: the holder keeps its record and the other tenant does
\* not get the reference.
C30_ExternalReferencesAreUnique ==
    /\ [](\A a \in Biz : \A b \in Biz \ {a} : ~SharesReference(a, b))
    /\ [][\A h \in Handlers :
             CarriesForeignReference(h) /\ Steps(h) =>
                 /\ subscriptions' = subscriptions
                 /\ hs'[h].pc = "done"
                 /\ hs'[h].resp = "500"
                 /\ hs[h].id \notin acked']_vars

\* the checkout of tenant y with the customer reference of tenant x has been
\* refused: x keeps its record and y has none
C30_Witness ==
    \E h \in Handlers :
        /\ hs[h].pc = "done"
        /\ hs[h].resp = "500"
        /\ hs[h].biz = "y"
        /\ Ev(h).type = "checkout.session.completed"
        /\ subscriptions["x"] # NoRow
        /\ Ev(h).cus = subscriptions["x"].cus
        /\ Ev(h).sub # subscriptions["x"].sub
        /\ subscriptions["y"] = NoRow

-----------------------------------------------------------------------------
(* Properties of re-subscription and of the order of the handler's writes *)

\* handler h has handled the checkout of a tenant whose status was canceled,
\* with a subscription reference
Resubscribed(h) ==
    /\ Handled(h, "checkout.session.completed")
    /\ hs[h].was = "canceled"
    /\ Ev(h).sub # NULL

\* C31: when a first-seen checkout.session.completed with a new subscription
\* reference has been handled for a tenant whose status was canceled, the
\* tenant's one subscription row is active and holds the new reference, and
\* the tenant holds exactly one active credential.
C31_Resubscription ==
    \A h \in Handlers :
        Resubscribed(h) =>
            /\ subscriptions[hs[h].biz].status = "active"
            /\ subscriptions[hs[h].biz].sub = Ev(h).sub
            /\ Cardinality(ActiveKeys(customer_keys, hs[h].biz)) = 1

\* C32: whatever the interleaving of the handlers, a step that writes the
\* businesses, subscriptions or customer_keys table is a step of a handler
\* whose event id is in the ledger already; and a handler that finds its
\* event id in the ledger runs no branch: it answers already_processed (or
\* 500 when the ledger cannot be read) and writes nothing.
C32_RecordBeforeApply ==
    /\ [][tables' # tables =>
             \E h \in Handlers : Steps(h) /\ hs[h].id \in processed]_vars
    /\ [][\A h \in Handlers :
             hs[h].pc = "seen" /\ hs[h].id \in processed /\ Steps(h) =>
                 /\ hs'[h].pc = "done"
                 /\ hs'[h].resp \in {"already_processed", "500"}
                 /\ tables' = tables
                 /\ minted' = minted
                 /\ subWrites' = subWrites]_vars

\* a delivery has been answered already_processed for an event whose
\* subscription write an earlier delivery made, after its ledger write
C32_Witness ==
    \E h \in Handlers :
        /\ hs[h].pc = "done"
        /\ hs[h].resp = "already_processed"
        /\ hs[h].id \in processed
        /\ subWrites[hs[h].id] = 1
        /\ \E b \in Biz : businesses[b] # NoRow /\ subscriptions[b] # NoRow

\* the request of thread t is to a tenant endpoint and its header carries
\* neither a credential that may pass nor the admin secret
Unauthenticated(t) ==
    /\ rq[t].op \in TenantOps
    /\ BadCredential(rq[t].hdr)
    /\ ~IsAdmin(cfg_admin, rq[t].hdr)

\* the rate limiter has admitted the request of thread t: its timestamp is the
\* last one stored for its header value
ConsumedSlot(t) ==
    /\ hits[rq[t].hdr] # <<>>
    /\ hits[rq[t].hdr][Len(hits[rq[t].hdr])] = rq[t].t
    /\ admitted[rq[t].hdr] # <<>>
    /\ admitted[rq[t].hdr][Len(admitted[rq[t].hdr])] = rq[t].t

\* C33: on a tenant endpoint the credential is resolved before the rate limiter
\* is consulted and the subscription status is read only after the rate
\* limiter admitted the call: a request with a missing, unknown or inactive
\* credential never reaches the rate limiter, is answered 401 at
\* verify_api_key and no step of it changes _hits; a request that is at the
\* subscription check, or was answered 402 there, has its timestamp stored in
\* _hits
C33_GateOrder ==
    /\ [](\A t \in Threads :
            /\ Unauthenticated(t) /\ rq[t].pc # "idle" =>
                  /\ rq[t].pc \in {"verify", "done"}
                  /\ rq[t].pc = "done" =>
                        rq[t].resp \in {"401", "500"} /\ rq[t].at = "verify"
            /\ rq[t].op \in TenantOps /\ rq[t].pc \in {"rl_read", "rl_write"} =>
                  verify_api_key(customer_keys, cfg_admin, rq[t].hdr) = "ok"
            /\ rq[t].op \in TenantOps
                  /\ (rq[t].pc = "sub" \/ (Answered(t) /\ rq[t].at = "sub")) =>
                  ConsumedSlot(t))
    /\ [][\A t \in Threads :
             Unauthenticated(t) /\ rq[t].pc # "idle" /\ rq'[t] # rq[t] =>
                 hits' = hits /\ admitted' = admitted]_vars

\* both cases happen: an inactive credential was answered 401 with nothing
\* stored for its header, a past-due tenant was answered 402 with its slot
\* consumed
C33_Witness ==
    /\ Answered("t1") /\ rq["t1"].resp = "402" /\ rq["t1"].detail = "Subscription inactive"
    /\ ConsumedSlot("t1")
    /\ hits[Header(2, FALSE)] = <<>>
    /\ hits[NoHeader] = <<>> /\ hits[Header(Bogus, FALSE)] = <<>>
    /\ Len(hits[Header(1, FALSE)]) = 2

\* an inactive credential was answered 401 at verify_api_key
C33_Refused ==
    /\ Answered("t1") /\ rq["t1"].resp = "401" /\ rq["t1"].hdr = Header(2, FALSE)
    /\ hits[Header(2, FALSE)] = <<>>

\* the calls admitted for header value hdr whose timestamps are within the
\* window that ends now
AdmittedInWindow(hdr) ==
    Cardinality({i \in 1..Len(admitted[hdr]) : admitted[hdr][i] >= now - Window})

\* C36: two requests that resolve to the same stored credential share one
\* rate-limit window: over the header values with and without surrounding
\* whitespace, no stored credential is admitted more than RATE_LIMIT_PER_MIN
\* times within one window
C36_RateLimitKeyIsCredential ==
    \A k \in KeyIds :
        AdmittedInWindow(Header(k, FALSE)) + AdmittedInWindow(Header(k, TRUE))
            <= RATE_LIMIT_PER_MIN

\* thread t commits its rotation in this step
CommitsRotation(t) ==
    rq[t].op = "rotate" /\ rq[t].pc = "commit" /\ rq'[t].pc = "done"
        /\ rq'[t].resp = "200"

\* the cancellation of the subscription of b has been processed to its end:
\* the status is written, no delivery is in flight
CancellationProcessed(b) ==
    /\ subscriptions[b] # NoRow
    /\ subscriptions[b].status = "canceled"
    /\ \E id \in applied : TRUE
    /\ \A h \in Handlers : hs[h].pc \in {"idle", "done"}

\* C34: a rotation commits a new active credential only if the old credential
\* it presented is still active at the commit, whatever deactivated it
\* between the credential check and the transaction; so a tenant whose
\* cancellation has been processed holds no active credential
C34_RotationNeverResurrects ==
    /\ [][\A t \in Threads :
             CommitsRotation(t) /\ ~customer_keys[Strip(rq[t].hdr)].active =>
                 ActiveKeys(customer_keys', rq[t].biz)
                     \subseteq ActiveKeys(customer_keys, rq[t].biz)]_vars
    /\ [](\A b \in Biz :
             CancellationProcessed(b) /\ (\A t \in Threads : rq[t].pc \in {"idle", "done"}) =>
                 ActiveKeys(customer_keys, b) = {})

\* C35: a rotation preserves the number of active credentials of its tenant,
\* also when concurrent rotations present the same old credential: tenant x,
\* who holds one active credential before the rotations, never holds two
C35_RotationPreservesCount ==
    Cardinality(ActiveKeys(customer_keys, "x")) <= 1

\* the credentials of tenant b are what they were: its rows are unchanged and
\* no row was added for it
KeysUntouched(b) ==
    /\ \A k \in DOMAIN customer_keys :
          customer_keys[k].biz = b =>
              k \in DOMAIN customer_keys' /\ customer_keys'[k] = customer_keys[k]
    /\ \A k \in DOMAIN customer_keys' :
          customer_keys'[k].biz = b => k \in DOMAIN customer_keys

\* C37: every step of a handler whose event resolved to tenant x leaves the
\* subscription record and the credentials of every other tenant as they are;
\* a handler that has resolved no tenant changes no tenant's records
C37_TenantIsolation ==
    [][\A h \in Handlers, y \in Biz :
          Steps(h) /\ y # hs[h].biz /\ y # hs'[h].biz =>
              /\ subscriptions'[y] = subscriptions[y]
              /\ KeysUntouched(y)]_vars

\* the cancellation of x was handled: x is canceled and holds no active
\* credential, while y is subscribed and its credential is active
C37_Witness ==
    \E h \in Handlers :
        /\ Handled(h, "customer.subscription.deleted")
        /\ hs[h].biz = "x"
        /\ subscriptions["x"].status = "canceled"
        /\ ActiveKeys(customer_keys, "x") = {}
        /\ \E k \in DOMAIN customer_keys : customer_keys[k].biz = "x"
        /\ subscriptions["y"] # NoRow
        /\ subscriptions["y"].status = "active"
        /\ ActiveKeys(customer_keys, "y") # {}

\* no delivery is in flight and every event recorded in the ledger ran to the
\* return of its branch
AllApplied ==
    /\ \A h \in Handlers : hs[h].pc \in {"idle", "done"}
    /\ processed \subseteq applied

\* C38: a paying tenant can authenticate: once the events delivered so far
\* have been handled, a tenant whose subscription status is active holds at
\* least one active credential
C38_PayingTenantCanAuthenticate ==
    AllApplied =>
        \A b \in Biz :
            subscriptions[b] # NoRow /\ subscriptions[b].status = "active" =>
                ActiveKeys(customer_keys, b) # {}

\* handler h holds a cancellation or a failed payment of the subscription the
\* seeded tenant had first ("s1"), and the event resolved to a tenant who has
\* subscribed again since: its row holds the event's customer reference and
\* the later subscription reference, the credential of the canceled
\* subscription is inactive and the one issued at the new checkout exists
LateEventOfOldLineage(h) ==
    /\ Ev(h).type \in {"customer.subscription.deleted", "invoice.payment_failed"}
    /\ Ev(h).sub = "s1"
    /\ hs[h].biz \in Biz
    /\ subscriptions[hs[h].biz] # NoRow
    /\ subscriptions[hs[h].biz].sub = "s2"
    /\ subscriptions[hs[h].biz].cus = Ev(h).cus
    /\ \E k \in DOMAIN customer_keys :
          customer_keys[k].biz = hs[h].biz /\ ~customer_keys[k].active
    /\ \E k \in DOMAIN customer_keys :
          customer_keys[k].biz = hs[h].biz /\ k > 1

\* C39: once a tenant has subscribed again (same customer reference, new
\* subscription reference), no step of a handler of a late
\* customer.subscription.deleted or invoice.payment_failed that carries the
\* old subscription reference changes the tenant's status or its credentials
C39_OldLineageHasNoEffect ==
    [][\A h \in Handlers :
          Steps(h) /\ LateEventOfOldLineage(h) =>
              /\ subscriptions'[hs[h].biz].status = subscriptions[hs[h].biz].status
              /\ KeysUntouched(hs[h].biz)]_vars
====
